---- MODULE Spec2Model ----
(***************************************************************************)
(* Store / SKU sales planning: the weekly gross-margin roll-up of the      *)
(* chart component (frontend/src/components/StoreChart.tsx), the planning  *)
(* aggregator of the backend (backend/controllers/planningController.js)   *)
(* and the store and SKU routes (backend/controllers/storeController.js,   *)
(* skusController.js).                                                     *)
(*                                                                         *)
(* Numbers: prices, costs and sales units are integers here and a          *)
(* quotient is an exact reduced fraction [num, den]; den = 0 encodes the   *)
(* IEEE results of a division by zero (NaN, +Infinity, -Infinity).  The    *)
(* rounding of IEEE doubles is not modelled.                               *)
(***************************************************************************)
EXTENDS Integers, Sequences, FiniteSets, TLC

VARIABLES
    skuData,      \* the skuData prop handed to StoreChart
    chart,        \* what the last render of StoreChart produced
    cells,        \* what the last render of PlanningSKU produced
    dbStore,      \* table "Store": a set of rows [id, label, city, state]
    dbSKUs,       \* table "SKUs": a set of rows [id, label, class, department,
                  \*   price, cost]
    dbPlanning,   \* table "Planning": a set of [store, sku, week, salesUnits]
    dbCalendar,   \* table "Calendar": week token -> number of rows holding it
    req,          \* the last request served by the planning route
    res,          \* its response
    handlers,     \* the requests of the store and SKU routes being served:
                  \*   slot -> the state of the handler serving it
    viewer,       \* the state of a mounted Planning or Charts page
    manager       \* the state of a mounted Stores or SKUs page

vars == <<skuData, chart, cells, dbStore, dbSKUs, dbPlanning, dbCalendar, req, res,
          handlers, viewer, manager>>

rollupVars == <<skuData, chart, cells>>
planningVars == <<dbStore, dbSKUs, dbPlanning, dbCalendar, req, res>>
crudVars == <<handlers>>
pageVars == <<viewer, manager>>

(***************************************************************************)
(* Bounds of the model                                                     *)
(***************************************************************************)
\* the most sales records (over all SKUs) of a skuData prop
MaxRecords == 2

(***************************************************************************)
(* Numbers                                                                 *)
(***************************************************************************)
Abs(x) == IF x < 0 THEN -x ELSE x

RECURSIVE GCD(_, _)
GCD(a, b) == IF b = 0 THEN a ELSE GCD(b, a % b)

\* the number n/d, d # 0, as a reduced fraction with a positive denominator
Ratio(n, d) ==
    LET g == GCD(Abs(n), Abs(d))
        s == IF d < 0 THEN -1 ELSE 1
    IN  [num |-> (s * n) \div g, den |-> (s * d) \div g]

Zero == [num |-> 0, den |-> 1]
NaN == [num |-> 0, den |-> 0]
Infinity == [num |-> 1, den |-> 0]
NegInfinity == [num |-> -1, den |-> 0]

\* a / b of two finite JavaScript numbers
JsDiv(a, b) ==
    IF b # 0 THEN Ratio(a, b)
    ELSE IF a = 0 THEN NaN
    ELSE IF a > 0 THEN Infinity ELSE NegInfinity

\* x * k of a JavaScript number x and a finite k > 0
JsTimes(x, k) == IF x.den = 0 THEN x ELSE Ratio(x.num * k, x.den)

\* the truthiness of a JavaScript number: 0 and NaN are falsy
Truthy(x) == x # 0

\* the sum of f over the finite set S
RECURSIVE SumOver(_, _)
SumOver(S, f) ==
    IF S = {} THEN 0
    ELSE LET x == CHOOSE y \in S : TRUE IN f[x] + SumOver(S \ {x}, f)

(***************************************************************************)
(* Week tokens                                                             *)
(***************************************************************************)
NumWeeks == 52

Digit(d) ==
    CASE d = 0 -> "0" [] d = 1 -> "1" [] d = 2 -> "2" [] d = 3 -> "3"
      [] d = 4 -> "4" [] d = 5 -> "5" [] d = 6 -> "6" [] d = 7 -> "7"
      [] d = 8 -> "8" [] d = 9 -> "9"

\* Number.prototype.toString of a non-negative integer
RECURSIVE toString(_)
toString(i) == IF i < 10 THEN Digit(i) ELSE toString(i \div 10) \o Digit(i % 10)

\* String.prototype.padStart with a one-character fill
RECURSIVE PadStart(_, _, _)
PadStart(s, n, fill) == IF Len(s) >= n THEN s ELSE PadStart(fill \o s, n, fill)

\* generateAllWeeks without the padStart
generateAllWeeks_NoPad == [i \in 1..NumWeeks |-> "W" \o toString(i)]

generateAllWeeks == [i \in 1..NumWeeks |-> "W" \o PadStart(toString(i), 2, "0")]

allWeeks == generateAllWeeks

Range(s) == {s[i] : i \in DOMAIN s}

(***************************************************************************)
(* StoreChart: the roll-up                                                 *)
(***************************************************************************)
NoMap == [w \in {} |-> 0]

\* salesMap with every week of allWeeks at zero
InitSalesMap ==
    [w \in Range(allWeeks) |->
        [gmDollars |-> 0, gmPercent |-> Zero, revenue |-> 0, cost |-> 0]]

\* AddSale assigning where the code accumulates (= for +=)
AddSale_Overwrite(st, price, cost, sale) ==
    IF st.threw THEN st
    ELSE IF sale.week \notin DOMAIN st.salesMap THEN [st EXCEPT !.threw = TRUE]
    ELSE LET revenue == sale.salesUnits * price
             totalCost == sale.salesUnits * cost
             gmDollars == revenue - totalCost
         IN  [st EXCEPT !.salesMap[sale.week].gmDollars = gmDollars,
                        !.salesMap[sale.week].revenue = revenue,
                        !.salesMap[sale.week].cost = totalCost]

\* AddSale assigning gmDollars where the code accumulates it
AddSale_GmAssigned(st, price, cost, sale) ==
    IF st.threw THEN st
    ELSE IF sale.week \notin DOMAIN st.salesMap THEN [st EXCEPT !.threw = TRUE]
    ELSE LET revenue == sale.salesUnits * price
             totalCost == sale.salesUnits * cost
             gmDollars == revenue - totalCost
         IN  [st EXCEPT !.salesMap[sale.week].gmDollars = gmDollars,
                        !.salesMap[sale.week].revenue = @ + revenue,
                        !.salesMap[sale.week].cost = @ + totalCost]

\* the body of salesData.forEach: st is [threw, salesMap]; salesMap[week] of a
\* week that is no key is undefined, and reading its gmDollars throws a TypeError
AddSale(st, price, cost, sale) ==
    IF st.threw THEN st
    ELSE IF sale.week \notin DOMAIN st.salesMap THEN [st EXCEPT !.threw = TRUE]
    ELSE LET revenue == sale.salesUnits * price
             totalCost == sale.salesUnits * cost
             gmDollars == revenue - totalCost
         IN  [st EXCEPT !.salesMap[sale.week].gmDollars = @ + gmDollars,
                        !.salesMap[sale.week].revenue = @ + revenue,
                        !.salesMap[sale.week].cost = @ + totalCost]

RECURSIVE AddSales(_, _, _, _, _)
AddSales(st, price, cost, salesData, k) ==
    IF k > Len(salesData) THEN st
    ELSE AddSales(AddSale(st, price, cost, salesData[k]), price, cost, salesData, k + 1)

\* AddSkus stopping before the last SKU
RECURSIVE AddSkus_SkipLast(_, _, _)
AddSkus_SkipLast(st, skuArray, k) ==
    IF k >= Len(skuArray) THEN st
    ELSE AddSkus_SkipLast(AddSales(st, skuArray[k].price, skuArray[k].cost,
                                   skuArray[k].salesData, 1),
                          skuArray, k + 1)

\* skuArray.forEach
RECURSIVE AddSkus(_, _, _)
AddSkus(st, skuArray, k) ==
    IF k > Len(skuArray) THEN st
    ELSE AddSkus(AddSales(st, skuArray[k].price, skuArray[k].cost,
                          skuArray[k].salesData, 1),
                 skuArray, k + 1)

\* GmPercent without the guard on revenue
GmPercent_Unguarded(revenue, gmDollars) == JsTimes(JsDiv(gmDollars, revenue), 100)

\* GmPercent as a fraction of 1 instead of a percentage
GmPercent_NoHundred(revenue, gmDollars) ==
    IF Truthy(revenue) THEN JsDiv(gmDollars, revenue) ELSE Zero

\* revenue ? (gmDollars / revenue) * 100 : 0
GmPercent(revenue, gmDollars) ==
    IF Truthy(revenue) THEN JsTimes(JsDiv(gmDollars, revenue), 100) ELSE Zero

\* the second allWeeks.forEach
WithGmPercent(salesMap) ==
    [w \in DOMAIN salesMap |->
        IF w \in Range(allWeeks)
        THEN [salesMap[w] EXCEPT
                 !.gmPercent = GmPercent(salesMap[w].revenue, salesMap[w].gmDollars)]
        ELSE salesMap[w]]

NoChart ==
    [status |-> "none", labels |-> <<>>, gmDollarsData |-> <<>>,
     gmPercentData |-> <<>>, salesMap |-> NoMap]

\* one render of StoreChart with the prop p
Render(p) ==
    IF ~p.hasData THEN [NoChart EXCEPT !.status = "NoData"]
    ELSE LET st == AddSkus([threw |-> FALSE, salesMap |-> InitSalesMap], p.data, 1)
             salesMap == WithGmPercent(st.salesMap)
         IN  IF st.threw THEN [NoChart EXCEPT !.status = "TypeError"]
             ELSE [status |-> "ok",
                   labels |-> allWeeks,
                   gmDollarsData |-> [i \in DOMAIN allWeeks |-> salesMap[allWeeks[i]].gmDollars],
                   gmPercentData |-> [i \in DOMAIN allWeeks |-> salesMap[allWeeks[i]].gmPercent],
                   salesMap |-> salesMap]

(***************************************************************************)
(* The props StoreChart is rendered with                                   *)
(***************************************************************************)
\* week tokens of sales records: two canonical ones, one outside W01..W52,
\* and the key a null week is looked up under
NullWeek == "null"
SaleWeeks == {"W01", "W52", "W53", NullWeek}
SaleUnits == {-10, 0, 10}
PriceCosts == {[price |-> 5, cost |-> 3], [price |-> 0, cost |-> 3]}
SkuNames == <<"A", "B">>
SkuIdOf == <<"SK1", "SK2">>

Sales == [week : SaleWeeks, salesUnits : SaleUnits]

SeqsUpTo(S, n) == UNION {[1..k -> S] : k \in 0..n}

\* the value of skuData.data[SkuNames[k]]
SkuEntry(k, pc, salesData) ==
    [sku_id |-> SkuIdOf[k], sku_name |-> SkuNames[k],
     price |-> pc.price, cost |-> pc.cost, salesData |-> salesData]

(***************************************************************************)
(* The roll-up as a state machine: a prop, and the renders of it           *)
(***************************************************************************)
\* no render of PlanningSKU yet
NoTable == [status |-> "none", weeks |-> {}, rows |-> <<>>]
\* no page mounted
NoPage == [page |-> "none"]
NoRequest == [storeId |-> "", dbFail |-> FALSE]
NoResponse == [status |-> 0, success |-> FALSE, data |-> <<>>]

\* the prop: no data, or the values of skuData.data in Object.values order,
\* of up to two SKUs holding at most MaxRecords sales records between them
InitSkuData ==
    \/ skuData = [hasData |-> FALSE, data |-> <<>>]
    \/ skuData = [hasData |-> TRUE, data |-> <<>>]
    \/ \E pc1 \in PriceCosts, l1 \in SeqsUpTo(Sales, MaxRecords) :
          skuData = [hasData |-> TRUE, data |-> <<SkuEntry(1, pc1, l1)>>]
    \/ \E pc1 \in PriceCosts, l1 \in SeqsUpTo(Sales, MaxRecords) :
          \E pc2 \in PriceCosts, l2 \in SeqsUpTo(Sales, MaxRecords - Len(l1)) :
             skuData = [hasData |-> TRUE,
                        data |-> <<SkuEntry(1, pc1, l1), SkuEntry(2, pc2, l2)>>]

InitRollup ==
    /\ InitSkuData
    /\ chart = NoChart
    /\ cells = NoTable
    /\ dbStore = {}
    /\ dbSKUs = {}
    /\ dbPlanning = {}
    /\ dbCalendar = NoMap
    /\ req = NoRequest
    /\ res = NoResponse
    /\ handlers = <<>>
    /\ viewer = NoPage
    /\ manager = NoPage

StoreChart ==
    /\ chart' = Render(skuData)
    /\ UNCHANGED <<skuData, cells, planningVars, crudVars, pageVars>>

NextRollup == StoreChart

SpecRollup == InitRollup /\ [][NextRollup]_vars

(***************************************************************************)
(* The planning table: PlanningSKU and its cells                           *)
(***************************************************************************)
\* x.toFixed(2) of a finite x, as the number of hundredths shown: the nearest
\* one, a tie going away from zero
toFixed(x) ==
    LET n == Abs(x.num) * 100
        q == (2 * n + x.den) \div (2 * x.den)
    IN  IF x.num < 0 THEN -q ELSE q

\* getGMColor of a percentage given in hundredths
getGMColor(hundredths) ==
    IF hundredths >= 5000 THEN "bg-green-500 text-white"
    ELSE IF hundredths >= 3000 THEN "bg-yellow-500 text-black"
    ELSE IF hundredths >= 1000 THEN "bg-orange-500 text-black"
    ELSE "bg-red-500 text-white"

\* sku.salesData.find(sale => sale.week === week): the records found, none
\* standing for undefined
Find(salesData, week) ==
    LET at == {j \in DOMAIN salesData : salesData[j].week = week}
    IN  IF at = {} THEN {}
        ELSE {salesData[CHOOSE j \in at : \A i \in at : j <= i]}

\* the cell of sku and week; percent is the value handed to toFixed (0 when
\* the cell shows "0.00" without computing it)
WeekDataCell(sku, week) ==
    LET weekData == Find(sku.salesData, week)
        salesUnits == IF weekData = {} THEN 0
                      ELSE (CHOOSE sale \in weekData : TRUE).salesUnits
        grossSales == salesUnits * sku.price
        grossMarginDollars == salesUnits * (sku.price - sku.cost)
        percent == IF grossSales > 0
                   THEN JsTimes(JsDiv(grossMarginDollars, grossSales), 100)
                   ELSE Zero
    IN  [salesUnits |-> salesUnits, grossSales |-> grossSales,
         grossMarginDollars |-> grossMarginDollars, percent |-> percent,
         grossMarginPercent |-> toFixed(percent),
         color |-> getGMColor(toFixed(percent))]

\* the week tokens of all sales records of skuArray
WeeksOf(skuArray) ==
    UNION {{skuArray[k].salesData[j].week : j \in DOMAIN skuArray[k].salesData}
              : k \in DOMAIN skuArray}

\* the renders of PlanningSKU for the prop p.  The weeks are sorted with
\* a.localeCompare(b), which throws a TypeError when it is called on a null
\* week; which of two weeks the sort hands it as a is the engine's choice.
RenderTable(p) ==
    IF ~p.hasData THEN {[NoTable EXCEPT !.status = "NoData"]}
    ELSE LET weeks == WeeksOf(p.data)
             table == [status |-> "ok", weeks |-> weeks,
                       rows |-> [k \in DOMAIN p.data |->
                                   [w \in weeks |-> WeekDataCell(p.data[k], w)]]]
         IN  IF NullWeek \in weeks /\ Cardinality(weeks) >= 2
             THEN {table, [NoTable EXCEPT !.status = "TypeError"]}
             ELSE {table}

PlanningSKU ==
    /\ cells' \in RenderTable(skuData)
    /\ UNCHANGED <<skuData, chart, planningVars, crudVars, pageVars>>

\* the Planning page shows the table and the Charts page the chart of one
\* aggregate
NextMargins == StoreChart \/ PlanningSKU

SpecMargins == InitRollup /\ [][NextMargins]_vars

(***************************************************************************)
(* The datastore the planning route reads                                  *)
(*                                                                         *)
(* Store and SKUs are written by the CRUD routes; Planning and Calendar    *)
(* are loaded from outside the program.  Neither table has a uniqueness    *)
(* constraint on the week token, so Calendar may hold several rows, or     *)
(* none, for one week.  Every Planning row names a stored SKU; the store   *)
(* it names may be stored or not.  The month of a Calendar row is selected *)
(* by the query and read by nothing, and is left out.                      *)
(***************************************************************************)
\* the most rows of table Planning
MaxPlanningRows == 3
\* the most rows of table Calendar holding one week token
MaxCalendarRows == 2

StoreIds == {"ST1", "ST2"}
SkuIds == {"SK1", "SK2"}
SkuLabels == {"A", "B"}
PlanWeeks == {"W01", "W02"}

\* the salesUnits the seed data gives the fact (sku, week)
SeedUnits(sku, week) ==
    (IF sku = "SK1" THEN 10 ELSE 20) + (IF week = "W01" THEN 0 ELSE 5)

PlanningFacts ==
    {[store |-> s, sku |-> k, week |-> w, salesUnits |-> SeedUnits(k, w)] :
        s \in StoreIds, k \in SkuIds, w \in PlanWeeks}

\* a row of table "Store"
StoreRow(id, label, city, state) ==
    [id |-> id, label |-> label, city |-> city, state |-> state]

\* a row of table "SKUs"
SkuRow(id, label, class, department, price, cost) ==
    [id |-> id, label |-> label, class |-> class, department |-> department,
     price |-> price, cost |-> cost]

SkuTables ==
    {{SkuRow("SK1", "A", "Tops", "Men", 5, 3), SkuRow("SK2", l, "Tops", "Men", 4, 1)}
        : l \in SkuLabels}

StoreTables ==
    {{StoreRow("ST1", "A", "Pune", "MH")},
     {StoreRow("ST1", "A", "Pune", "MH"), StoreRow("ST2", "B", "Pune", "MH")}}

\* the ids of the rows of table
Ids(table) == {r.id : r \in table}

\* the row of table with the primary key id
RowOf(table, id) == CHOOSE r \in table : r.id = id

InitPlanning ==
    /\ dbStore \in StoreTables
    /\ dbSKUs \in SkuTables
    /\ dbPlanning \in {P \in SUBSET PlanningFacts : Cardinality(P) <= MaxPlanningRows}
    /\ dbCalendar \in [PlanWeeks -> 0..MaxCalendarRows]
    /\ req = NoRequest
    /\ res = NoResponse
    /\ skuData = [hasData |-> FALSE, data |-> <<>>]
    /\ chart = NoChart
    /\ cells = NoTable
    /\ handlers = <<>>
    /\ viewer = NoPage
    /\ manager = NoPage

(***************************************************************************)
(* getPlanningData                                                         *)
(***************************************************************************)
\* ORDER BY c.week ASC: text order, NULL last
WeekRank(w) == CASE w = "W01" -> 1 [] w = "W02" -> 2 [] w = NullWeek -> 3

\* the selected columns of the row joining Planning row p and its SKU to a
\* Calendar row of week cweek (NullWeek: no Calendar row matched)
JoinedRow(p, cweek) ==
    [sku_id |-> p.sku, sku_name |-> RowOf(dbSKUs, p.sku).label,
     price |-> RowOf(dbSKUs, p.sku).price, cost |-> RowOf(dbSKUs, p.sku).cost,
     week |-> cweek, salesUnits |-> p.salesUnits]

\* the query reading Planning alone, without FROM Store
PlanningOfStore_NoStoreJoin(storeId) == {p \in dbPlanning : p.store = storeId}

\* FROM Store s LEFT JOIN Planning p ON s.id = p.store WHERE p.store = storeId
PlanningOfStore(storeId) ==
    {p \in dbPlanning : p.store = storeId /\ \E s \in dbStore : s.id = p.store}

\* LEFT JOIN SKUs, LEFT JOIN Calendar c ON p.week = c.week: the bag of result
\* rows, as row -> number of copies
JoinBag(storeId) ==
    LET P == PlanningOfStore(storeId)
        rowOf(p) == JoinedRow(p, IF dbCalendar[p.week] = 0 THEN NullWeek ELSE p.week)
        rows == {rowOf(p) : p \in P}
    IN  [r \in rows |->
            SumOver({p \in P : rowOf(p) = r},
                    [p \in P |-> IF dbCalendar[p.week] = 0 THEN 1 ELSE dbCalendar[p.week]])]

\* the query without ORDER BY: the rows of bag in any order
RECURSIVE QueryResults_Unordered(_)
QueryResults_Unordered(bag) ==
    LET left == {r \in DOMAIN bag : bag[r] > 0}
    IN  IF left = {} THEN {<<>>}
        ELSE UNION {{<<r>> \o rest :
                        rest \in QueryResults_Unordered([bag EXCEPT ![r] = @ - 1])}
                      : r \in left}

\* the orders the database may return the rows of bag in: sorted by week, rows
\* of one week in any order
RECURSIVE QueryResults(_)
QueryResults(bag) ==
    LET left == {r \in DOMAIN bag : bag[r] > 0}
        first == {r \in left : \A q \in left : WeekRank(r.week) <= WeekRank(q.week)}
    IN  IF left = {} THEN {<<>>}
        ELSE UNION {{<<r>> \o rest : rest \in QueryResults([bag EXCEPT ![r] = @ - 1])}
                      : r \in first}

\* the index of the entry of acc under key, 0 when acc has none
RECURSIVE KeyIndex(_, _, _)
KeyIndex(acc, key, k) ==
    IF k > Len(acc) THEN 0
    ELSE IF acc[k].key = key THEN k
    ELSE KeyIndex(acc, key, k + 1)

\* the callback keyed by item.sku_id
ReduceStep_ById(acc, item) ==
    LET withKey ==
            IF KeyIndex(acc, item.sku_id, 1) = 0
            THEN Append(acc, [key |-> item.sku_id,
                              sku_id |-> item.sku_id, sku_name |-> item.sku_name,
                              price |-> item.price, cost |-> item.cost,
                              salesData |-> <<>>])
            ELSE acc
        at == KeyIndex(withKey, item.sku_id, 1)
    IN  [withKey EXCEPT ![at].salesData =
            Append(@, [week |-> item.week, salesUnits |-> item.salesUnits])]

\* the callback of result.reduce: acc is the object built so far, as its
\* entries in insertion order
ReduceStep(acc, item) ==
    LET withKey ==
            IF KeyIndex(acc, item.sku_name, 1) = 0
            THEN Append(acc, [key |-> item.sku_name,
                              sku_id |-> item.sku_id, sku_name |-> item.sku_name,
                              price |-> item.price, cost |-> item.cost,
                              salesData |-> <<>>])
            ELSE acc
        at == KeyIndex(withKey, item.sku_name, 1)
    IN  [withKey EXCEPT ![at].salesData =
            Append(@, [week |-> item.week, salesUnits |-> item.salesUnits])]

RECURSIVE Reduce(_, _, _)
Reduce(result, acc, k) ==
    IF k > Len(result) THEN acc ELSE Reduce(result, ReduceStep(acc, result[k]), k + 1)

\* the reduce seeded with an empty entry for every stored SKU
transformedData_ZeroFilled(result) ==
    Reduce(result,
           [k \in 1..2 |->
               LET id == IF k = 1 THEN "SK1" ELSE "SK2"
               IN  [key |-> id, sku_id |-> id, sku_name |-> RowOf(dbSKUs, id).label,
                    price |-> RowOf(dbSKUs, id).price, cost |-> RowOf(dbSKUs, id).cost,
                    salesData |-> <<>>]],
           1)

transformedData(result) == Reduce(result, <<>>, 1)

\* GET /planning/:storeId
getPlanningData(storeId) ==
    \/ \E result \in QueryResults(JoinBag(storeId)) :
          /\ req' = [storeId |-> storeId, dbFail |-> FALSE]
          /\ res' = [status |-> 200, success |-> TRUE, data |-> transformedData(result)]
    \/ /\ req' = [storeId |-> storeId, dbFail |-> TRUE]
       /\ res' = [status |-> 500, success |-> FALSE, data |-> <<>>]

GetPlanningData ==
    /\ \E storeId \in StoreIds : getPlanningData(storeId)
    /\ UNCHANGED <<dbStore, dbSKUs, dbPlanning, dbCalendar, rollupVars, crudVars, pageVars>>

NextPlanning == GetPlanningData

SpecPlanning == InitPlanning /\ [][NextPlanning]_vars

(***************************************************************************)
(* The store and SKU routes                                                *)
(*                                                                         *)
(* A handler is an async function: it runs without interruption up to an   *)
(* await of a datastore call, and again from the call's return up to the   *)
(* next await or to its response.  A step of the model is one such run,    *)
(* together with the datastore call it resumes from; the datastore         *)
(* executes one call at a time.  Besides the position of the handler, a    *)
(* slot records what an observer of the request sees: the responses sent,  *)
(* the datastore calls made with their outcomes, and the Store and SKUs    *)
(* tables as they were when the request arrived.                           *)
(*                                                                         *)
(* A JSON object is a record holding the keys that are present.  The id,   *)
(* label, city, state, class and department of a body are strings, price   *)
(* and cost are numbers.                                                   *)
(***************************************************************************)
\* the most requests served at the same time
MaxConcurrent == 2

Restrict(f, S) == [k \in S |-> f[k]]

\* a test of f being a key of body, passing the empty string
Not_AbsentOnly(body, f) == f \notin DOMAIN body

\* !body[f], f holding a string when present
Not(body, f) == f \notin DOMAIN body \/ body[f] = ""

\* a test of f being a key of body, passing the number 0
NotNumber_AbsentOnly(body, f) == f \notin DOMAIN body

\* !body[f], f holding a number when present
NotNumber(body, f) == f \notin DOMAIN body \/ body[f] = 0

\* prefix occurs somewhere in s: String.prototype.includes
startsWith_Includes(s, prefix) ==
    \E i \in 1..Len(s) :
        i + Len(prefix) - 1 <= Len(s) /\ SubSeq(s, i, i + Len(prefix) - 1) = prefix

\* String.prototype.startsWith
startsWith(s, prefix) ==
    Len(s) >= Len(prefix) /\ SubSeq(s, 1, Len(prefix)) = prefix

(***************************************************************************)
(* Responses                                                               *)
(***************************************************************************)
\* res.status(status).json(json)
Reply(status, json) == [status |-> status, json |-> json]

\* { error: msg }
ErrorJson(msg) == [kind |-> "error", value |-> msg]
\* { message: msg }
MessageJson(msg) == [kind |-> "message", value |-> msg]
\* a row, and an array of rows
RowJson(row) == [kind |-> "row", value |-> row]
RowsJson(rows) == [kind |-> "rows", value |-> rows]
\* { success: true, data } and { success: false, message: msg }
PlanningJson(data) == [kind |-> "planning", value |-> data]
FailureJson(msg) == [kind |-> "failure", value |-> msg]

(***************************************************************************)
(* The datastore calls (Prisma client)                                     *)
(***************************************************************************)
\* findMany() losing the first row
findMany_SkipFirst(table) ==
    {SubSeq(l, 2, Len(l)) :
        l \in {l \in [1..Cardinality(table) -> table] :
                  \A r \in table : \E i \in DOMAIN l : l[i] = r}}

\* findMany(): the rows of table, in an order of the database's choosing
findMany(table) ==
    {l \in [1..Cardinality(table) -> table] : \A r \in table : \E i \in DOMAIN l : l[i] = r}

\* findUnique({ where: { id } }): the rows found, none standing for null
findUnique_Null(table, id) == {r \in table : FALSE}

findUnique(table, id) == {r \in table : r.id = id}

\* create that replaces the row holding the id (an upsert)
create_Upsert(table, row, up) ==
    IF ~up THEN [outcome |-> "unavailable", table |-> table]
    ELSE [outcome |-> "ok", table |-> {r \in table : r.id # row.id} \cup {row}]

\* create({ data: row }): throws when the datastore is not available (up is
\* FALSE) and when a row holds the primary key already
create(table, row, up) ==
    IF ~up THEN [outcome |-> "unavailable", table |-> table]
    ELSE IF row.id \in Ids(table) THEN [outcome |-> "conflict", table |-> table]
    ELSE [outcome |-> "ok", table |-> table \cup {row}]

\* delete that passes over a missing row (deleteMany)
delete_IfExists(table, id, up) ==
    IF ~up THEN [outcome |-> "unavailable", table |-> table]
    ELSE [outcome |-> "ok", table |-> {r \in table : r.id # id}]

\* delete({ where: { id } }): throws when the datastore is not available and
\* when no row holds the id
delete(table, id, up) ==
    IF ~up THEN [outcome |-> "unavailable", table |-> table]
    ELSE IF id \notin Ids(table) THEN [outcome |-> "notFound", table |-> table]
    ELSE [outcome |-> "ok", table |-> {r \in table : r.id # id}]

(***************************************************************************)
(* Handlers                                                                *)
(***************************************************************************)
NoCall == [route |-> "", body |-> <<>>, id |-> ""]

Idle ==
    [call |-> NoCall, pc |-> "idle", sent |-> <<>>, dbLog |-> <<>>,
     before |-> [dbStore |-> {}, dbSKUs |-> {}]]

\* the handler stops at the await of the datastore call op
Await(h, op) == [h EXCEPT !.pc = op]

\* the awaited call returned, or threw, with outcome
Logged(h, outcome) ==
    [h EXCEPT !.dbLog = Append(@, [op |-> h.pc, outcome |-> outcome])]

\* return res.status(status).json(json)
Send(h, status, json) ==
    [h EXCEPT !.pc = "done", !.sent = Append(@, Reply(status, json))]

\* a catch block that answers like a successful request without content
Caught_Quiet(h) == Send(h, 200, ErrorJson(""))

\* the catch block of the store and SKU handlers
Caught(h) == Send(h, 500, ErrorJson("Internal Server Error"))

\* what a run of a handler leaves: the handler, and the table it writes
Result(h, table) == [h |-> h, table |-> table]

\* GET /stores; stores is what findMany returns when the datastore is up
getAllStores(h, up, stores) ==
    CASE h.pc = "start" -> Result(Await(h, "findMany"), dbStore)
      [] h.pc = "findMany" ->
            IF ~up THEN Result(Caught(Logged(h, "unavailable")), dbStore)
            ELSE Result(Send(Logged(h, "ok"), 200, RowsJson(stores)), dbStore)

\* POST /stores testing the prefix before the required fields; startsWith of
\* an absent id throws a TypeError, which the catch block answers
createStore_PrefixFirst(h, up) ==
    LET body == h.call.body
        row == StoreRow(body.id, body.label, body.city, body.state)
        made == create(dbStore, row, up)
    IN  CASE h.pc = "start" ->
               IF "id" \notin DOMAIN body THEN Result(Caught(h), dbStore)
               ELSE IF ~startsWith(body.id, "ST")
               THEN Result(Send(h, 400,
                        ErrorJson("Store ID must start with 'ST' prefix")), dbStore)
               ELSE IF Not(body, "id") \/ Not(body, "label") \/ Not(body, "city")
                     \/ Not(body, "state")
               THEN Result(Send(h, 400,
                        ErrorJson("id, label, city, and state are required fields")),
                        dbStore)
               ELSE Result(Await(h, "findUnique"), dbStore)
          [] h.pc = "findUnique" ->
               IF ~up THEN Result(Caught(Logged(h, "unavailable")), dbStore)
               ELSE IF findUnique(dbStore, body.id) # {}
               THEN Result(Send(Logged(h, "ok"), 400,
                        ErrorJson("Store ID already exists")), dbStore)
               ELSE Result(Await(Logged(h, "ok"), "create"), dbStore)
          [] h.pc = "create" ->
               IF made.outcome # "ok"
               THEN Result(Caught(Logged(h, made.outcome)), dbStore)
               ELSE Result(Send(Logged(h, "ok"), 201, RowJson(row)), made.table)

\* POST /stores
createStore(h, up) ==
    LET body == h.call.body
        row == StoreRow(body.id, body.label, body.city, body.state)
        made == create(dbStore, row, up)
    IN  CASE h.pc = "start" ->
               IF Not(body, "id") \/ Not(body, "label") \/ Not(body, "city")
                     \/ Not(body, "state")
               THEN Result(Send(h, 400,
                        ErrorJson("id, label, city, and state are required fields")),
                        dbStore)
               ELSE IF ~startsWith(body.id, "ST")
               THEN Result(Send(h, 400,
                        ErrorJson("Store ID must start with 'ST' prefix")), dbStore)
               ELSE Result(Await(h, "findUnique"), dbStore)
          [] h.pc = "findUnique" ->
               IF ~up THEN Result(Caught(Logged(h, "unavailable")), dbStore)
               ELSE IF findUnique(dbStore, body.id) # {}
               THEN Result(Send(Logged(h, "ok"), 400,
                        ErrorJson("Store ID already exists")), dbStore)
               ELSE Result(Await(Logged(h, "ok"), "create"), dbStore)
          [] h.pc = "create" ->
               IF made.outcome # "ok"
               THEN Result(Caught(Logged(h, made.outcome)), dbStore)
               ELSE Result(Send(Logged(h, "ok"), 201, RowJson(row)), made.table)

\* DELETE /stores/:id
deleteStore(h, up) ==
    LET gone == delete(dbStore, h.call.id, up)
    IN  CASE h.pc = "start" -> Result(Await(h, "delete"), dbStore)
          [] h.pc = "delete" ->
               IF gone.outcome # "ok"
               THEN Result(Caught(Logged(h, gone.outcome)), dbStore)
               ELSE Result(Send(Logged(h, "ok"), 200,
                        MessageJson("Store deleted successfully")), gone.table)

\* GET /skus
getAllSKUs(h, up, skus) ==
    CASE h.pc = "start" -> Result(Await(h, "findMany"), dbSKUs)
      [] h.pc = "findMany" ->
            IF ~up THEN Result(Caught(Logged(h, "unavailable")), dbSKUs)
            ELSE Result(Send(Logged(h, "ok"), 200, RowsJson(skus)), dbSKUs)

\* POST /skus without the check of the id's prefix
createSKU_AnyPrefix(h, up) ==
    LET body == h.call.body
        row == SkuRow(body.id, body.label, body.class, body.department,
                      body.price, body.cost)
        made == create(dbSKUs, row, up)
    IN  CASE h.pc = "start" ->
               IF Not(body, "id") \/ Not(body, "label") \/ Not(body, "class")
                     \/ Not(body, "department") \/ NotNumber(body, "price")
                     \/ NotNumber(body, "cost")
               THEN Result(Send(h, 400,
                        ErrorJson("id, label, class, department, price and cost are required fields")),
                        dbSKUs)
               ELSE Result(Await(h, "findUnique"), dbSKUs)
          [] h.pc = "findUnique" ->
               IF ~up THEN Result(Caught(Logged(h, "unavailable")), dbSKUs)
               ELSE IF findUnique(dbSKUs, body.id) # {}
               THEN Result(Send(Logged(h, "ok"), 400,
                        ErrorJson("SKU ID already exists")), dbSKUs)
               ELSE Result(Await(Logged(h, "ok"), "create"), dbSKUs)
          [] h.pc = "create" ->
               IF made.outcome # "ok"
               THEN Result(Caught(Logged(h, made.outcome)), dbSKUs)
               ELSE Result(Send(Logged(h, "ok"), 201, RowJson(row)), made.table)

\* POST /skus
createSKU(h, up) ==
    LET body == h.call.body
        row == SkuRow(body.id, body.label, body.class, body.department,
                      body.price, body.cost)
        made == create(dbSKUs, row, up)
    IN  CASE h.pc = "start" ->
               IF Not(body, "id") \/ Not(body, "label") \/ Not(body, "class")
                     \/ Not(body, "department") \/ NotNumber(body, "price")
                     \/ NotNumber(body, "cost")
               THEN Result(Send(h, 400,
                        ErrorJson("id, label, class, department, price and cost are required fields")),
                        dbSKUs)
               ELSE IF ~startsWith(body.id, "SK")
               THEN Result(Send(h, 400,
                        ErrorJson("SKU ID must start with 'SK' prefix")), dbSKUs)
               ELSE Result(Await(h, "findUnique"), dbSKUs)
          [] h.pc = "findUnique" ->
               IF ~up THEN Result(Caught(Logged(h, "unavailable")), dbSKUs)
               ELSE IF findUnique(dbSKUs, body.id) # {}
               THEN Result(Send(Logged(h, "ok"), 400,
                        ErrorJson("SKU ID already exists")), dbSKUs)
               ELSE Result(Await(Logged(h, "ok"), "create"), dbSKUs)
          [] h.pc = "create" ->
               IF made.outcome # "ok"
               THEN Result(Caught(Logged(h, made.outcome)), dbSKUs)
               ELSE Result(Send(Logged(h, "ok"), 201, RowJson(row)), made.table)

\* DELETE /skus/:id
deleteSKU(h, up) ==
    LET gone == delete(dbSKUs, h.call.id, up)
    IN  CASE h.pc = "start" -> Result(Await(h, "delete"), dbSKUs)
          [] h.pc = "delete" ->
               IF gone.outcome # "ok"
               THEN Result(Caught(Logged(h, gone.outcome)), dbSKUs)
               ELSE Result(Send(Logged(h, "ok"), 200,
                        MessageJson("SKUs deleted successfully")), gone.table)

\* GET /planning/:storeId served next to the store and SKU routes; result is
\* what $queryRaw returns when the datastore is up
servePlanningData(h, up, result) ==
    CASE h.pc = "start" -> Await(h, "queryRaw")
      [] h.pc = "queryRaw" ->
            IF ~up THEN Send(Logged(h, "unavailable"), 500,
                             FailureJson("Internal Server Error"))
            ELSE Send(Logged(h, "ok"), 200, PlanningJson(transformedData(result)))

(***************************************************************************)
(* The requests                                                            *)
(***************************************************************************)
StoreFields == {"id", "label", "city", "state"}
SkuFields == {"id", "label", "class", "department", "price", "cost"}

\* the bodies of POST /stores: every field may be absent, id and city may be
\* empty, and one id holds the prefix without starting with it
StoreBodies ==
    {Restrict(b, F) :
        b \in [id : {"ST1", "ST2", "XST", ""}, label : {"A", "B"},
               city : {"Pune", ""}, state : {"MH"}],
        F \in SUBSET StoreFields}

\* the bodies of POST /skus
SkuBodies ==
    {Restrict(b, F) :
        b \in [id : {"SK1", "XSK"}, label : {"A"}, class : {"Tops"},
               department : {"Men"}, price : {5, 0, -5}, cost : {3, 0}],
        F \in SUBSET SkuFields}

\* bodies that pass the checks of createStore and of createSKU
PassingStoreBodies ==
    [id : {"ST1", "ST2"}, label : {"A", "B"}, city : {"Pune"}, state : {"MH"}]
PassingSkuBodies ==
    [id : {"SK1"}, label : {"A"}, class : {"Tops"}, department : {"Men"},
     price : {5, -5}, cost : {3}]

Call(route, body, id) == [route |-> route, body |-> body, id |-> id]

CallsOf(storeBodies, skuBodies) ==
    {Call("getAllStores", <<>>, ""), Call("getAllSKUs", <<>>, "")}
    \cup {Call("createStore", b, "") : b \in storeBodies}
    \cup {Call("deleteStore", <<>>, id) : id \in StoreIds}
    \cup {Call("createSKU", b, "") : b \in skuBodies}
    \cup {Call("deleteSKU", <<>>, id) : id \in {"SK1"}}
    \cup {Call("getPlanningData", <<>>, id) : id \in {"ST1"}}

Calls == CallsOf(StoreBodies, SkuBodies)
PassingCalls == CallsOf(PassingStoreBodies, PassingSkuBodies)

\* slot s takes the request call: the router hands it to its handler, which
\* runs up to its first await or to its response
Arrive(s, call) ==
    LET h == [call |-> call, pc |-> "start", sent |-> <<>>, dbLog |-> <<>>,
              before |-> [dbStore |-> dbStore, dbSKUs |-> dbSKUs]]
        started ==
            CASE call.route = "getAllStores" -> getAllStores(h, TRUE, <<>>).h
              [] call.route = "createStore" -> createStore(h, TRUE).h
              [] call.route = "deleteStore" -> deleteStore(h, TRUE).h
              [] call.route = "getAllSKUs" -> getAllSKUs(h, TRUE, <<>>).h
              [] call.route = "createSKU" -> createSKU(h, TRUE).h
              [] call.route = "deleteSKU" -> deleteSKU(h, TRUE).h
              [] call.route = "getPlanningData" -> servePlanningData(h, TRUE, <<>>)
    IN  /\ handlers' = [handlers EXCEPT ![s] = started]
        /\ UNCHANGED <<dbStore, dbSKUs, dbPlanning, dbCalendar, req, res, rollupVars, pageVars>>

\* the handler of slot s waits for a datastore call
Waiting(s, route) ==
    /\ handlers[s].call.route = route
    /\ handlers[s].pc \notin {"idle", "done"}

\* requests issued one after the other: the next one when the last is answered
Request ==
    /\ handlers[1].pc \in {"idle", "done"}
    /\ \E call \in Calls : Arrive(1, call)

\* requests issued at any time, one to a slot
ConcurrentRequest ==
    \E s \in DOMAIN handlers :
        /\ handlers[s].pc = "idle"
        /\ \E call \in PassingCalls : Arrive(s, call)

GetAllStores ==
    \E s \in DOMAIN handlers, up \in BOOLEAN :
        /\ Waiting(s, "getAllStores")
        /\ \E stores \in findMany(dbStore) :
              handlers' = [handlers EXCEPT ![s] = getAllStores(handlers[s], up, stores).h]
        /\ UNCHANGED <<dbStore, dbSKUs, dbPlanning, dbCalendar, req, res, rollupVars, pageVars>>

CreateStore ==
    \E s \in DOMAIN handlers, up \in BOOLEAN :
        /\ Waiting(s, "createStore")
        /\ handlers' = [handlers EXCEPT ![s] = createStore(handlers[s], up).h]
        /\ dbStore' = createStore(handlers[s], up).table
        /\ UNCHANGED <<dbSKUs, dbPlanning, dbCalendar, req, res, rollupVars, pageVars>>

DeleteStore ==
    \E s \in DOMAIN handlers, up \in BOOLEAN :
        /\ Waiting(s, "deleteStore")
        /\ handlers' = [handlers EXCEPT ![s] = deleteStore(handlers[s], up).h]
        /\ dbStore' = deleteStore(handlers[s], up).table
        /\ UNCHANGED <<dbSKUs, dbPlanning, dbCalendar, req, res, rollupVars, pageVars>>

GetAllSKUs ==
    \E s \in DOMAIN handlers, up \in BOOLEAN :
        /\ Waiting(s, "getAllSKUs")
        /\ \E skus \in findMany(dbSKUs) :
              handlers' = [handlers EXCEPT ![s] = getAllSKUs(handlers[s], up, skus).h]
        /\ UNCHANGED <<dbStore, dbSKUs, dbPlanning, dbCalendar, req, res, rollupVars, pageVars>>

CreateSKU ==
    \E s \in DOMAIN handlers, up \in BOOLEAN :
        /\ Waiting(s, "createSKU")
        /\ handlers' = [handlers EXCEPT ![s] = createSKU(handlers[s], up).h]
        /\ dbSKUs' = createSKU(handlers[s], up).table
        /\ UNCHANGED <<dbStore, dbPlanning, dbCalendar, req, res, rollupVars, pageVars>>

DeleteSKU ==
    \E s \in DOMAIN handlers, up \in BOOLEAN :
        /\ Waiting(s, "deleteSKU")
        /\ handlers' = [handlers EXCEPT ![s] = deleteSKU(handlers[s], up).h]
        /\ dbSKUs' = deleteSKU(handlers[s], up).table
        /\ UNCHANGED <<dbStore, dbPlanning, dbCalendar, req, res, rollupVars, pageVars>>

ServePlanningData ==
    \E s \in DOMAIN handlers, up \in BOOLEAN :
        /\ Waiting(s, "getPlanningData")
        /\ \E result \in QueryResults(JoinBag(handlers[s].call.id)) :
              handlers' = [handlers EXCEPT ![s] = servePlanningData(handlers[s], up, result)]
        /\ UNCHANGED <<dbStore, dbSKUs, dbPlanning, dbCalendar, req, res, rollupVars, pageVars>>

Serve ==
    \/ GetAllStores
    \/ CreateStore
    \/ DeleteStore
    \/ GetAllSKUs
    \/ CreateSKU
    \/ DeleteSKU
    \/ ServePlanningData

\* the tables of Planning and Calendar are loaded from outside the program
\* and are empty here
InitRoutes ==
    /\ dbPlanning = {}
    /\ dbCalendar = NoMap
    /\ req = NoRequest
    /\ res = NoResponse
    /\ skuData = [hasData |-> FALSE, data |-> <<>>]
    /\ chart = NoChart
    /\ cells = NoTable
    /\ viewer = NoPage
    /\ manager = NoPage

\* one client, issuing its requests in sequence against empty tables
InitCrud ==
    /\ InitRoutes
    /\ dbStore = {}
    /\ dbSKUs = {}
    /\ handlers = <<Idle>>

NextCrud == Request \/ Serve

SpecCrud == InitCrud /\ [][NextCrud]_vars

\* MaxConcurrent requests issued at any time, against tables that earlier
\* requests have left
InitConcurrent ==
    /\ InitRoutes
    /\ dbStore \in {{}, {StoreRow("ST1", "A", "Pune", "MH")}}
    /\ dbSKUs \in {{}, {SkuRow("SK1", "A", "Tops", "Men", 5, 3)}}
    /\ handlers = [s \in 1..MaxConcurrent |-> Idle]

NextConcurrent == ConcurrentRequest \/ Serve

SpecConcurrent == InitConcurrent /\ [][NextConcurrent]_vars

(***************************************************************************)
(* The Planning and Charts pages                                           *)
(*                                                                         *)
(* Each page loads the stores when it is mounted, lets the user select one *)
(* and asks the planning route for the aggregate of the selected store.    *)
(* A step is one run of an event handler or of an async function between   *)
(* two awaits.  The pages keep what the response holds without reading it, *)
(* so a response body stands for the aggregate of the store it was asked   *)
(* for; the store route answers the rows of table Store.                   *)
(***************************************************************************)
\* the most planning requests of a page awaiting their responses
MaxInFlight == 3

\* useState({ data: {} })
InitialData == [success |-> FALSE, of |-> ""]
\* the body of the planning route's answer for a store
Aggregate(storeId) == [success |-> TRUE, of |-> storeId]

\* the page after its mount effect has called fetchStores
Mounted(page) ==
    [page |-> page, stores |-> {}, fetchingStores |-> TRUE, loading |-> TRUE,
     dataLoading |-> FALSE, value |-> "", skuData |-> InitialData,
     inFlight |-> [s \in StoreIds |-> 0]]

InFlight(v) == SumOver(StoreIds, [s \in StoreIds |-> v.inFlight[s]])

\* fetchStores from the await on: the stores are set, or the error is logged
fetchStores(v, ok, rows) ==
    [v EXCEPT !.fetchingStores = FALSE,
              !.stores = IF ok THEN Ids(rows) ELSE @,
              !.loading = FALSE]

\* axios.get(`${API_URL}/planning/${storeId}`)
Sent(v, storeId) == [v EXCEPT !.inFlight[storeId] = @ + 1]
\* the await returns and setSkuData(data) runs, or it throws and the error
\* is logged
Settled(v, storeId, ok) ==
    [v EXCEPT !.inFlight[storeId] = @ - 1,
              !.skuData = IF ok THEN Aggregate(storeId) ELSE @]

\* Planning: onSelect, and the effect on value that calls fetchPlanningData
onSelect(v, currentValue) ==
    LET value == IF currentValue = v.value THEN "" ELSE currentValue
    IN  IF value # ""
        THEN [Sent(v, value) EXCEPT !.value = value, !.loading = TRUE]
        ELSE [v EXCEPT !.value = value]

\* Planning: fetchPlanningData from the await on
fetchPlanningData(v, storeId, ok) ==
    [Settled(v, storeId, ok) EXCEPT !.loading = FALSE]

\* Charts: handleStoreSelect, up to the await of fetchChartData
handleStoreSelect(v, storeId) ==
    [Sent(v, storeId) EXCEPT !.value = storeId, !.dataLoading = TRUE]

\* Charts: fetchChartData from the await on
fetchChartData(v, storeId, ok) ==
    [Settled(v, storeId, ok) EXCEPT !.dataLoading = FALSE]

\* what the page shows below the selector: the table of PlanningSKU on the
\* Planning page, the chart of StoreChart on the Charts page
Displayed(v) ==
    IF v.page = "Planning"
    THEN IF v.value # "" THEN v.skuData ELSE InitialData
    ELSE IF ~v.dataLoading /\ v.value # "" THEN v.skuData ELSE InitialData

FetchStores ==
    /\ viewer.fetchingStores
    /\ \E ok \in BOOLEAN : viewer' = fetchStores(viewer, ok, dbStore)
    /\ UNCHANGED <<rollupVars, planningVars, crudVars, manager>>

\* the selector of the Planning page is rendered when loading is false
OnSelect ==
    /\ viewer.page = "Planning"
    /\ ~viewer.loading
    /\ InFlight(viewer) < MaxInFlight
    /\ \E currentValue \in viewer.stores : viewer' = onSelect(viewer, currentValue)
    /\ UNCHANGED <<rollupVars, planningVars, crudVars, manager>>

FetchPlanningData ==
    /\ viewer.page = "Planning"
    /\ \E storeId \in StoreIds, ok \in BOOLEAN :
          /\ viewer.inFlight[storeId] > 0
          /\ viewer' = fetchPlanningData(viewer, storeId, ok)
    /\ UNCHANGED <<rollupVars, planningVars, crudVars, manager>>

\* the selector of the Charts page is rendered when loading is false,
\* whatever dataLoading is
HandleStoreSelect ==
    /\ viewer.page = "Charts"
    /\ ~viewer.loading
    /\ InFlight(viewer) < MaxInFlight
    /\ \E storeId \in viewer.stores : viewer' = handleStoreSelect(viewer, storeId)
    /\ UNCHANGED <<rollupVars, planningVars, crudVars, manager>>

FetchChartData ==
    /\ viewer.page = "Charts"
    /\ \E storeId \in StoreIds, ok \in BOOLEAN :
          /\ viewer.inFlight[storeId] > 0
          /\ viewer' = fetchChartData(viewer, storeId, ok)
    /\ UNCHANGED <<rollupVars, planningVars, crudVars, manager>>

InitViewer ==
    /\ viewer \in {Mounted("Planning"), Mounted("Charts")}
    /\ manager = NoPage
    /\ dbStore \in StoreTables
    /\ dbSKUs = {}
    /\ dbPlanning = {}
    /\ dbCalendar = NoMap
    /\ req = NoRequest
    /\ res = NoResponse
    /\ skuData = [hasData |-> FALSE, data |-> <<>>]
    /\ chart = NoChart
    /\ cells = NoTable
    /\ handlers = <<>>

NextViewer ==
    \/ FetchStores
    \/ OnSelect
    \/ FetchPlanningData
    \/ HandleStoreSelect
    \/ FetchChartData

SpecViewer == InitViewer /\ [][NextViewer]_vars

(***************************************************************************)
(* The Stores and SKUs pages                                               *)
(*                                                                         *)
(* Each page lists a table, ten rows to a page, filtered by a search on    *)
(* the label, and lets the user add a row and delete a listed row; every   *)
(* successful change is followed by a reload of the list.  A request of    *)
(* the page is sent, answered by its route in one step, and its response   *)
(* arrives in a later step, in any order with the other responses.  The    *)
(* rows are numbered; the list route answers them in the order of their    *)
(* numbers.  The user adds the row numbered MaxRows + 1 and deletes the    *)
(* last row shown.                                                         *)
(***************************************************************************)
\* the most rows of the listed table when the page is mounted
MaxRows == 11
\* the furthest page the user goes to
MaxPage == 2
\* the most rows the user adds and deletes
MaxChanges == 2
\* the most requests of the page awaiting their responses
MaxRequests == 2

itemsPerPage == 10

\* the row numbered i of the table listed by page
ListedRow(page, i) ==
    LET label == IF i > itemsPerPage THEN "B" ELSE "A"
    IN  IF page = "Stores"
        THEN StoreRow("ST" \o toString(i), label, "Pune", "MH")
        ELSE SkuRow("SK" \o toString(i), label, "Tops", "Men", 5, 3)

SeedTable(page, n) == {ListedRow(page, i) : i \in 1..n}

\* the body of GET /stores and of GET /skus
ListOf(page, table) ==
    LET idx == {i \in 1..(MaxRows + 1) : ListedRow(page, i) \in table}
    IN  [k \in 1..Cardinality(idx) |->
            ListedRow(page, CHOOSE i \in idx : Cardinality({j \in idx : j < i}) = k - 1)]

\* String.prototype.toLowerCase, on the letters of the labels and queries
Lower(c) == CASE c = "A" -> "a" [] c = "B" -> "b" [] OTHER -> c

RECURSIVE toLowerCase(_)
toLowerCase(s) ==
    IF Len(s) = 0 THEN s ELSE Lower(SubSeq(s, 1, 1)) \o toLowerCase(SubSeq(s, 2, Len(s)))

\* String.prototype.includes
includes(s, q) ==
    \/ Len(q) = 0
    \/ \E i \in 1..Len(s) :
          i + Len(q) - 1 <= Len(s) /\ SubSeq(s, i, i + Len(q) - 1) = q

\* Array.prototype.slice(start, end) for 0 <= start <= end
slice(list, start, end) ==
    LET last == IF end < Len(list) THEN end ELSE Len(list)
    IN  IF start < last THEN SubSeq(list, start + 1, last) ELSE <<>>

SearchQueries == {"", "B"}

NoRow == [id |-> ""]
Sending(method, row) == [method |-> method, row |-> row, answer |-> "none", rows |-> <<>>]

\* the page after its mount effect has called fetchStores or fetchSKU;
\* errors tells whether a catch block has run, changes counts the rows the
\* user has added and deleted
MountedList(page) ==
    [page |-> page, allItems |-> <<>>, loading |-> TRUE, submitting |-> FALSE,
     deleting |-> "", currentPage |-> 1, searchQuery |-> "",
     requests |-> <<Sending("GET", NoRow)>>, errors |-> FALSE, changes |-> 0]

filteredItems(m) ==
    LET matches(r) == includes(toLowerCase(r.label), toLowerCase(m.searchQuery))
    IN  SelectSeq(m.allItems, matches)

totalPages(m) == (Len(filteredItems(m)) + itemsPerPage - 1) \div itemsPerPage

\* getCurrentPageData, currentSKUs
currentItems(m) ==
    LET startIndex == (m.currentPage - 1) * itemsPerPage
    IN  slice(filteredItems(m), startIndex, startIndex + itemsPerPage)

Without(requests, i) == SubSeq(requests, 1, i - 1) \o SubSeq(requests, i + 1, Len(requests))

\* fetchStores, fetchSKU up to the await
fetchList(m) ==
    [m EXCEPT !.loading = TRUE, !.requests = Append(@, Sending("GET", NoRow))]

\* fetchStores, fetchSKU from the await on
fetchedList(m, i) ==
    LET n == [m EXCEPT !.requests = Without(@, i), !.loading = FALSE]
    IN  IF m.requests[i].answer = "ok"
        THEN [n EXCEPT !.allItems = m.requests[i].rows]
        ELSE [n EXCEPT !.errors = TRUE]

\* onSubmit up to the await of the POST
onSubmit(m, row) ==
    [m EXCEPT !.submitting = (m.page = "SKUs"),
              !.changes = @ + 1,
              !.requests = Append(@, Sending("POST", row))]

\* onSubmit from the await on
submitted(m, i) ==
    LET n == [m EXCEPT !.requests = Without(@, i), !.submitting = FALSE]
    IN  IF m.requests[i].answer = "ok" THEN fetchList(n) ELSE [n EXCEPT !.errors = TRUE]

\* handleDelete up to the await of the DELETE
handleDelete(m, id) ==
    [m EXCEPT !.deleting = IF m.page = "SKUs" THEN id ELSE @,
              !.changes = @ + 1,
              !.requests = Append(@, Sending("DELETE", [id |-> id]))]

\* handleDelete from the await on
deleted(m, i) ==
    LET n == [m EXCEPT !.requests = Without(@, i), !.deleting = ""]
    IN  IF m.requests[i].answer = "ok" THEN fetchList(n) ELSE [n EXCEPT !.errors = TRUE]

handlePageChange(m, page) == [m EXCEPT !.currentPage = page]

\* the onChange of the search input; the SKUs page has an effect on the
\* query that goes back to the first page
setSearchQuery(m, q) ==
    [m EXCEPT !.searchQuery = q,
              !.currentPage = IF m.page = "SKUs" /\ q # m.searchQuery THEN 1 ELSE @]

\* the route answering request i against table
answerOf(m, table, i, up) ==
    LET r == m.requests[i]
        answered(ok, rows) ==
            [m EXCEPT !.requests[i].answer = IF ok THEN "ok" ELSE "error",
                      !.requests[i].rows = rows]
    IN  CASE r.method = "GET" ->
               [m |-> answered(up, IF up THEN ListOf(m.page, table) ELSE <<>>),
                table |-> table]
          [] r.method = "POST" ->
               LET c == create(table, r.row, up)
               IN  [m |-> answered(c.outcome = "ok", <<>>), table |-> c.table]
          [] r.method = "DELETE" ->
               LET d == delete(table, r.row.id, up)
               IN  [m |-> answered(d.outcome = "ok", <<>>), table |-> d.table]

\* the search input and the drawer are rendered
ControlsShown(m) ==
    IF m.page = "Stores" THEN ~m.loading ELSE ~(m.loading /\ Len(m.allItems) = 0)

\* the table is rendered
TableShown(m) == ~m.loading

\* the pagination controls are rendered
PaginationShown(m) ==
    TableShown(m) /\ (m.page = "Stores" \/ Len(currentItems(m)) > 0)

\* the pages the enabled buttons lead to: Previous, the numbered, Next
PageButtons(m) ==
    {m.currentPage - 1 : x \in {1} \ {m.currentPage}}
        \cup 1..totalPages(m)
        \cup {m.currentPage + 1 : x \in {totalPages(m)} \ {m.currentPage}}

Route ==
    /\ manager # NoPage
    /\ \E i \in DOMAIN manager.requests, up \in BOOLEAN :
          /\ manager.requests[i].answer = "none"
          /\ IF manager.page = "Stores"
             THEN LET a == answerOf(manager, dbStore, i, up)
                  IN  manager' = a.m /\ dbStore' = a.table /\ dbSKUs' = dbSKUs
             ELSE LET a == answerOf(manager, dbSKUs, i, up)
                  IN  manager' = a.m /\ dbSKUs' = a.table /\ dbStore' = dbStore
    /\ UNCHANGED <<dbPlanning, dbCalendar, req, res, rollupVars, crudVars, viewer>>

Arrived(i, method) ==
    /\ manager # NoPage
    /\ i \in DOMAIN manager.requests
    /\ manager.requests[i].method = method
    /\ manager.requests[i].answer # "none"

FetchList ==
    /\ \E i \in 1..MaxRequests : Arrived(i, "GET") /\ manager' = fetchedList(manager, i)
    /\ UNCHANGED <<rollupVars, planningVars, crudVars, viewer>>

OnSubmit ==
    /\ manager # NoPage
    /\ ControlsShown(manager)
    /\ ~manager.submitting
    /\ Len(manager.requests) < MaxRequests
    /\ manager.changes < MaxChanges
    /\ manager' = onSubmit(manager, ListedRow(manager.page, MaxRows + 1))
    /\ UNCHANGED <<rollupVars, planningVars, crudVars, viewer>>

Submitted ==
    /\ \E i \in 1..MaxRequests : Arrived(i, "POST") /\ manager' = submitted(manager, i)
    /\ UNCHANGED <<rollupVars, planningVars, crudVars, viewer>>

HandleDelete ==
    /\ manager # NoPage
    /\ TableShown(manager)
    /\ Len(manager.requests) < MaxRequests
    /\ manager.changes < MaxChanges
    /\ LET shown == currentItems(manager)
       IN  /\ Len(shown) > 0
           /\ shown[Len(shown)].id # manager.deleting
           /\ manager' = handleDelete(manager, shown[Len(shown)].id)
    /\ UNCHANGED <<rollupVars, planningVars, crudVars, viewer>>

Deleted ==
    /\ \E i \in 1..MaxRequests : Arrived(i, "DELETE") /\ manager' = deleted(manager, i)
    /\ UNCHANGED <<rollupVars, planningVars, crudVars, viewer>>

HandlePageChange ==
    /\ manager # NoPage
    /\ PaginationShown(manager)
    /\ \E page \in PageButtons(manager) :
          page <= MaxPage /\ manager' = handlePageChange(manager, page)
    /\ UNCHANGED <<rollupVars, planningVars, crudVars, viewer>>

SetSearchQuery ==
    /\ manager # NoPage
    /\ ControlsShown(manager)
    /\ \E q \in SearchQueries : manager' = setSearchQuery(manager, q)
    /\ UNCHANGED <<rollupVars, planningVars, crudVars, viewer>>

InitManager ==
    /\ manager \in {MountedList("Stores"), MountedList("SKUs")}
    /\ \E n \in {0, 1, MaxRows} :
          /\ dbStore = SeedTable("Stores", n)
          /\ dbSKUs = SeedTable("SKUs", n)
    /\ viewer = NoPage
    /\ dbPlanning = {}
    /\ dbCalendar = NoMap
    /\ req = NoRequest
    /\ res = NoResponse
    /\ skuData = [hasData |-> FALSE, data |-> <<>>]
    /\ chart = NoChart
    /\ cells = NoTable
    /\ handlers = <<>>

NextManager ==
    \/ Route
    \/ FetchList
    \/ OnSubmit
    \/ Submitted
    \/ HandleDelete
    \/ Deleted
    \/ HandlePageChange
    \/ SetSearchQuery

SpecManager == InitManager /\ [][NextManager]_vars

(***************************************************************************)
(* Properties of the roll-up                                               *)
(***************************************************************************)
CanonicalWeeks ==
    <<"W01", "W02", "W03", "W04", "W05", "W06", "W07", "W08", "W09", "W10",
      "W11", "W12", "W13", "W14", "W15", "W16", "W17", "W18", "W19", "W20",
      "W21", "W22", "W23", "W24", "W25", "W26", "W27", "W28", "W29", "W30",
      "W31", "W32", "W33", "W34", "W35", "W36", "W37", "W38", "W39", "W40",
      "W41", "W42", "W43", "W44", "W45", "W46", "W47", "W48", "W49", "W50",
      "W51", "W52">>

WeekIndexes == DOMAIN CanonicalWeeks

\* the positions <<k, j>> of the sales records of data: record j of SKU k
SalePositions(data) ==
    UNION {{<<k, j>> : j \in DOMAIN data[k].salesData} : k \in DOMAIN data}

\* the positions of the sales records of week w
SalesOfWeek(data, w) ==
    {pos \in SalePositions(data) : data[pos[1]].salesData[pos[2]].week = w}

UnitsAt(data, pos) == data[pos[1]].salesData[pos[2]].salesUnits

\* the totals of week w over every sales record of every SKU
TotalRevenue(data, w) ==
    SumOver(SalesOfWeek(data, w),
            [pos \in SalesOfWeek(data, w) |-> UnitsAt(data, pos) * data[pos[1]].price])

TotalCost(data, w) ==
    SumOver(SalesOfWeek(data, w),
            [pos \in SalesOfWeek(data, w) |-> UnitsAt(data, pos) * data[pos[1]].cost])

TotalGmDollars(data, w) ==
    SumOver(SalesOfWeek(data, w),
            [pos \in SalesOfWeek(data, w) |->
                UnitsAt(data, pos) * (data[pos[1]].price - data[pos[1]].cost)])

Rendered == chart.status # "none"
RolledUp == chart.status = "ok"

\* C1: whenever the roll-up returns its output, the labels are exactly the 52
\* tokens W01..W52 in ascending order, the gmDollars and gmPercent series have
\* 52 entries aligned with them, and every week without a sales record has
\* revenue = cost = gmDollars = gmPercent = 0 (the empty mapping included).
C1_FullTimeline ==
    RolledUp =>
        /\ chart.labels = CanonicalWeeks
        /\ DOMAIN chart.salesMap = Range(CanonicalWeeks)
        /\ Len(chart.gmDollarsData) = 52
        /\ Len(chart.gmPercentData) = 52
        /\ \A i \in WeekIndexes :
              /\ chart.gmDollarsData[i] = chart.salesMap[CanonicalWeeks[i]].gmDollars
              /\ chart.gmPercentData[i] = chart.salesMap[CanonicalWeeks[i]].gmPercent
              /\ SalesOfWeek(skuData.data, CanonicalWeeks[i]) = {} =>
                    /\ chart.salesMap[CanonicalWeeks[i]].revenue = 0
                    /\ chart.salesMap[CanonicalWeeks[i]].cost = 0
                    /\ chart.gmDollarsData[i] = 0
                    /\ chart.gmPercentData[i] = Zero

\* the roll-up of the empty mapping: 52 weeks, all zero
C1_Witness ==
    /\ RolledUp
    /\ skuData.data = <<>>
    /\ Len(chart.labels) = 52
    /\ \A i \in WeekIndexes : chart.gmDollarsData[i] = 0 /\ chart.gmPercentData[i] = Zero

\* C2: in the roll-up's output every week whose accumulated revenue is 0 has
\* gmPercent exactly 0, never NaN or an infinity, whatever the prices, costs
\* and sales units are.
C2_ZeroRevenueZeroPercent ==
    RolledUp =>
        \A i \in WeekIndexes :
            chart.salesMap[CanonicalWeeks[i]].revenue = 0 =>
                /\ chart.gmPercentData[i] = Zero
                /\ chart.salesMap[CanonicalWeeks[i]].gmPercent = Zero

\* a week with sales whose revenue is 0 and whose gmDollars is not
C2_Witness ==
    /\ RolledUp
    /\ \E i \in WeekIndexes :
          /\ SalesOfWeek(skuData.data, CanonicalWeeks[i]) # {}
          /\ chart.salesMap[CanonicalWeeks[i]].revenue = 0
          /\ chart.gmDollarsData[i] # 0
          /\ chart.gmPercentData[i] = Zero

\* C3 (as claimed): gmPercent of every week is gmDollars/revenue*100 when the
\* week's accumulated revenue is strictly positive, and 0 in every other case,
\* a negative revenue included.
C3_PercentOnlyForPositiveRevenue ==
    RolledUp =>
        \A i \in WeekIndexes :
            LET b == chart.salesMap[CanonicalWeeks[i]]
            IN  chart.gmPercentData[i] =
                    IF b.revenue > 0 THEN Ratio(b.gmDollars * 100, b.revenue) ELSE Zero

\* C4: the roll-up is additive: the gmDollars, revenue and cost of every week
\* are the sums, over every SKU and every one of its sales records of that
\* week, of salesUnits*(price-cost), salesUnits*price and salesUnits*cost.
C4_Additive ==
    RolledUp =>
        \A i \in WeekIndexes :
            LET w == CanonicalWeeks[i]
            IN  /\ chart.gmDollarsData[i] = TotalGmDollars(skuData.data, w)
                /\ chart.salesMap[w].revenue = TotalRevenue(skuData.data, w)
                /\ chart.salesMap[w].cost = TotalCost(skuData.data, w)

\* two SKUs selling in the same week, and the week's gmDollars is not 0
C4_Witness ==
    /\ RolledUp
    /\ Len(skuData.data) = 2
    /\ \E i \in WeekIndexes :
          /\ \E j \in DOMAIN skuData.data[1].salesData :
                skuData.data[1].salesData[j].week = CanonicalWeeks[i]
          /\ \E j \in DOMAIN skuData.data[2].salesData :
                skuData.data[2].salesData[j].week = CanonicalWeeks[i]
          /\ chart.gmDollarsData[i] # 0

\* the input is one Planning fact of one SKU, in a canonical week
SingleFact ==
    /\ skuData.hasData
    /\ Len(skuData.data) = 1
    /\ Len(skuData.data[1].salesData) = 1
    /\ skuData.data[1].salesData[1].week \in Range(CanonicalWeeks)

\* the buckets of a single fact, but for the gmPercent of its week
SingleFactBuckets ==
    LET sku == skuData.data[1]
        w == sku.salesData[1].week
        u == sku.salesData[1].salesUnits
    IN  /\ RolledUp
        /\ chart.salesMap[w].revenue = u * sku.price
        /\ chart.salesMap[w].cost = u * sku.cost
        /\ chart.salesMap[w].gmDollars = u * (sku.price - sku.cost)
        /\ \A i \in WeekIndexes :
              CanonicalWeeks[i] # w =>
                  /\ chart.salesMap[CanonicalWeeks[i]].revenue = 0
                  /\ chart.gmDollarsData[i] = 0
                  /\ chart.gmPercentData[i] = Zero
        /\ (u = 10 /\ sku.price = 5 /\ sku.cost = 3 /\ w = "W01") =>
              /\ chart.salesMap["W01"].revenue = 50
              /\ chart.salesMap["W01"].cost = 30
              /\ chart.gmDollarsData[1] = 20

\* C5 (as claimed): for a single Planning fact (week w, salesUnits u) of a SKU
\* with price p and cost c, the bucket of w has revenue u*p, cost u*c,
\* gmDollars u*(p-c) and gmPercent = gmDollars/revenue*100, and the other 51
\* weeks are at zero.
C5_SingleFactAsClaimed ==
    (SingleFact /\ Rendered) =>
        /\ SingleFactBuckets
        /\ LET b == chart.salesMap[skuData.data[1].salesData[1].week]
           IN  b.gmPercent = JsTimes(JsDiv(b.gmDollars, b.revenue), 100)

\* C5 (amended): as claimed, with gmPercent = gmDollars/revenue*100 when the
\* revenue u*p is not 0 and gmPercent = 0 when it is 0; for u = 10, p = 5,
\* c = 3, w = W01: revenue 50, cost 30, gmDollars 20, gmPercent 40.
C5_SingleFact ==
    (SingleFact /\ Rendered) =>
        /\ SingleFactBuckets
        /\ LET b == chart.salesMap[skuData.data[1].salesData[1].week]
           IN  b.gmPercent =
                   IF b.revenue # 0 THEN Ratio(b.gmDollars * 100, b.revenue) ELSE Zero
        /\ skuData.data[1] = SkuEntry(1, [price |-> 5, cost |-> 3],
                                      <<[week |-> "W01", salesUnits |-> 10]>>) =>
              chart.gmPercentData[1] = [num |-> 40, den |-> 1]

\* the example of the spec, rolled up
C5_Witness ==
    /\ skuData.hasData
    /\ skuData.data = <<SkuEntry(1, [price |-> 5, cost |-> 3],
                                 <<[week |-> "W01", salesUnits |-> 10]>>)>>
    /\ RolledUp
    /\ chart.gmDollarsData[1] = 20
    /\ chart.gmPercentData[1] = [num |-> 40, den |-> 1]

\* a sales record whose week is none of W01..W52
HasStrayWeek(data) ==
    \E pos \in SalePositions(data) :
        data[pos[1]].salesData[pos[2]].week \notin Range(CanonicalWeeks)

IsCanonicalSale(sale) == sale.week \in Range(CanonicalWeeks)

\* data without the sales records whose week is none of W01..W52
WithoutStrayWeeks(data) ==
    [k \in DOMAIN data |->
        [data[k] EXCEPT !.salesData = SelectSeq(@, IsCanonicalSale)]]

\* C6 (as claimed): when a sales record carries a week token that is none of
\* W01..W52 (a null week included), the roll-up completes normally and all 52
\* buckets hold the values they would hold without that record.
C6_StrayWeekDropped ==
    (skuData.hasData /\ HasStrayWeek(skuData.data) /\ Rendered) =>
        /\ RolledUp
        /\ chart = Render([hasData |-> TRUE, data |-> WithoutStrayWeeks(skuData.data)])

Perms(n) == {f \in [1..n -> 1..n] : \A i, j \in 1..n : f[i] = f[j] => i = j}

\* every ordering of the sequence s
Orderings(s) == {[i \in DOMAIN s |-> s[f[i]]] : f \in Perms(Len(s))}

\* data with the records of every SKU from position k on in every ordering
RECURSIVE RecordOrderings(_, _)
RecordOrderings(data, k) ==
    IF k > Len(data) THEN {<<>>}
    ELSE {<<[data[k] EXCEPT !.salesData = l]>> \o rest :
            l \in Orderings(data[k].salesData), rest \in RecordOrderings(data, k + 1)}

\* every ordering of the SKUs of data and of the records of each SKU
Reorderings(data) == UNION {Orderings(d) : d \in RecordOrderings(data, 1)}

\* C7: gmPercent of a week is computed from the week's fully accumulated
\* totals of all SKUs, and the outcome of the roll-up (revenue, cost, gmDollars
\* and gmPercent of the 52 weeks) is the same for every ordering of the SKUs
\* and every ordering of the records inside each SKU's list.
C7_OrderIndependent ==
    (skuData.hasData /\ Rendered) =>
        /\ \A d \in Reorderings(skuData.data) :
              Render([hasData |-> TRUE, data |-> d]) = chart
        /\ RolledUp =>
              \A i \in WeekIndexes :
                  LET rev == TotalRevenue(skuData.data, CanonicalWeeks[i])
                      gm == TotalGmDollars(skuData.data, CanonicalWeeks[i])
                  IN  chart.gmPercentData[i] =
                          IF rev # 0 THEN Ratio(gm * 100, rev) ELSE Zero

\* two SKUs of different prices selling in one week, rolled up
C7_Witness ==
    /\ RolledUp
    /\ Len(skuData.data) = 2
    /\ skuData.data[1].price # skuData.data[2].price
    /\ \E i \in WeekIndexes :
          /\ \E j \in DOMAIN skuData.data[1].salesData :
                skuData.data[1].salesData[j].week = CanonicalWeeks[i]
          /\ \E j \in DOMAIN skuData.data[2].salesData :
                skuData.data[2].salesData[j].week = CanonicalWeeks[i]
          /\ chart.gmPercentData[i] # Zero

(***************************************************************************)
(* Properties of the planning aggregator                                   *)
(***************************************************************************)
Answered == res.status # 0
Succeeded == res.status = 200 /\ res.success

\* the Planning rows of the requested store
RequestedRows == {p \in dbPlanning : p.store = req.storeId}

\* every week of a requested row has exactly one Calendar row
CalendarIsOneToOne == \A p \in RequestedRows : dbCalendar[p.week] = 1

\* the number of entries of the sequence s equal to x
Count(s, x) == Cardinality({i \in DOMAIN s : s[i] = x})

\* C8 (as claimed): the aggregator's output has exactly one entry per distinct
\* SKU id with a planning row for the store (also when several SKUs share a
\* label), holding that SKU's own id, label, price and cost and exactly that
\* SKU's {week, salesUnits} rows.  Stated for a stored store whose weeks each
\* have one Calendar row.
C8_OneEntryPerSkuId ==
    (Succeeded /\ req.storeId \in Ids(dbStore) /\ CalendarIsOneToOne) =>
        /\ Len(res.data) = Cardinality({p.sku : p \in RequestedRows})
        /\ \A id \in {p.sku : p \in RequestedRows} :
              \E k \in DOMAIN res.data :
                  /\ res.data[k].sku_id = id
                  /\ res.data[k].sku_name = RowOf(dbSKUs, id).label
                  /\ res.data[k].price = RowOf(dbSKUs, id).price
                  /\ res.data[k].cost = RowOf(dbSKUs, id).cost
                  /\ Len(res.data[k].salesData) =
                        Cardinality({p \in RequestedRows : p.sku = id})
                  /\ \A p \in RequestedRows :
                        p.sku = id =>
                            Count(res.data[k].salesData,
                                  [week |-> p.week, salesUnits |-> p.salesUnits]) = 1

\* the ids of the SKUs with a Planning row of the requested store
SkusWithRows == {p.sku : p \in RequestedRows}

\* C9: a SKU without a Planning row for the requested store is in no entry of
\* the aggregator's output: every entry has a non-empty salesData list and the
\* id of a SKU that has a row for the store.
C9_NoEntryWithoutRows ==
    Succeeded =>
        \A k \in DOMAIN res.data :
            /\ Len(res.data[k].salesData) >= 1
            /\ res.data[k].sku_id \in SkusWithRows

\* the store has rows for one SKU and none for another, and got its entries
C9_Witness ==
    /\ Succeeded
    /\ req.storeId \in Ids(dbStore)
    /\ SkusWithRows # {}
    /\ SkuIds \ SkusWithRows # {}
    /\ Len(res.data) >= 1

\* C10: for a store id that is not the id of a stored Store, also when
\* Planning rows still mention it, getPlanningData whose query did not fail
\* answers with success and the empty mapping.
C10_UnknownStoreEmpty ==
    (Answered /\ ~req.dbFail /\ req.storeId \notin Ids(dbStore)) =>
        /\ res.status = 200
        /\ res.success
        /\ res.data = <<>>

\* a store that is not stored, mentioned by Planning rows, was asked for
C10_Witness ==
    /\ Answered
    /\ ~req.dbFail
    /\ req.storeId \notin Ids(dbStore)
    /\ RequestedRows # {}
    /\ Succeeded
    /\ res.data = <<>>

(***************************************************************************)
(* Properties of the store and SKU routes                                  *)
(***************************************************************************)
\* the request of handler h has been answered
Done(h) == h.pc = "done"

\* the datastore calls of h that failed, as positions of its log
FailedCalls(h) == {i \in DOMAIN h.dbLog : h.dbLog[i].outcome # "ok"}

\* the Store and SKUs tables are as they were when the request of h arrived
TablesAsBefore(h) == dbStore = h.before.dbStore /\ dbSKUs = h.before.dbSKUs

\* h has sent one response, and it is the generic failure
AnsweredGenericFailure(h) ==
    /\ Len(h.sent) = 1
    /\ h.sent[1].status \in 500..599
    /\ h.sent[1].json.kind \in {"error", "failure"}
    /\ h.sent[1].json.value = "Internal Server Error"

\* C11: whenever a datastore call fails inside getPlanningData, getAllStores,
\* createStore, deleteStore, getAllSKUs, createSKU or deleteSKU, the request
\* is answered exactly once, with a 5xx response carrying the generic error
\* message and no data; the failed call is the last call the handler makes
\* and none of its calls is made twice (no retry); the Store and SKUs tables
\* are as they were before the request.
C11_FailureAnswered ==
    \A s \in DOMAIN handlers :
        LET h == handlers[s]
        IN  FailedCalls(h) # {} =>
                /\ Done(h)
                /\ AnsweredGenericFailure(h)
                /\ FailedCalls(h) = {Len(h.dbLog)}
                /\ \A i, j \in DOMAIN h.dbLog : i # j => h.dbLog[i].op # h.dbLog[j].op
                /\ TablesAsBefore(h)

\* createStore found the id free and its create failed: 500, nothing stored
C11_Witness ==
    \E s \in DOMAIN handlers :
        LET h == handlers[s]
        IN  /\ h.call.route = "createStore"
            /\ h.dbLog = <<[op |-> "findUnique", outcome |-> "ok"],
                           [op |-> "create", outcome |-> "unavailable"]>>
            /\ h.sent = <<Reply(500, ErrorJson("Internal Server Error"))>>
            /\ h.call.body.id \notin Ids(dbStore)

\* the one handler of the specification of requests in sequence
Last == handlers[1]

\* the request of h was answered with one response of this status
AnsweredWith(h, status) == Done(h) /\ Len(h.sent) = 1 /\ h.sent[1].status = status

\* the number of rows of the list rows holding id
Listed(rows, id) == Cardinality({i \in DOMAIN rows : rows[i].id = id})

\* C12: store round trip, for requests issued in sequence.  A createStore
\* answered 201 leaves exactly one stored Store of its id, holding the given
\* label, city and state; a getAllStores that is answered lists every stored
\* Store exactly once, with its fields, and no other id; a deleteStore
\* answered with the success message leaves no Store of its id; and the
\* table changes across a request only by such a createStore or deleteStore,
\* so an id stays listed from its creation to its deletion and stays
\* unlisted from its deletion until it is created again.
C12_StoreRoundTrip ==
    LET h == Last
        body == h.call.body
    IN  /\ (h.call.route = "createStore" /\ AnsweredWith(h, 201)) =>
              /\ {r \in dbStore : r.id = body.id} =
                    {StoreRow(body.id, body.label, body.city, body.state)}
              /\ h.sent[1].json = RowJson(StoreRow(body.id, body.label, body.city, body.state))
        /\ (h.call.route = "getAllStores" /\ AnsweredWith(h, 200)) =>
              /\ h.sent[1].json.kind = "rows"
              /\ \A r \in dbStore : Count(h.sent[1].json.value, r) = 1
              /\ \A id \in Ids(dbStore) : Listed(h.sent[1].json.value, id) = 1
              /\ Len(h.sent[1].json.value) = Cardinality(dbStore)
        /\ (h.call.route = "deleteStore" /\ AnsweredWith(h, 200)) =>
              /\ h.sent[1].json = MessageJson("Store deleted successfully")
              /\ h.call.id \notin Ids(dbStore)
              /\ h.call.id \in Ids(h.before.dbStore)
        /\ dbStore # h.before.dbStore =>
              \/ h.call.route = "createStore" /\ AnsweredWith(h, 201)
                    /\ dbStore = h.before.dbStore \cup
                          {StoreRow(body.id, body.label, body.city, body.state)}
              \/ h.call.route = "deleteStore" /\ AnsweredWith(h, 200)
                    /\ dbStore = {r \in h.before.dbStore : r.id # h.call.id}

\* two stores were created and getAllStores lists both
C12_Witness ==
    /\ Last.call.route = "getAllStores"
    /\ AnsweredWith(Last, 200)
    /\ Len(Last.sent[1].json.value) = 2
    /\ Listed(Last.sent[1].json.value, "ST1") = 1
    /\ Listed(Last.sent[1].json.value, "ST2") = 1

\* every field of fields is in body and is not the empty string
AllPresent(body, fields) == \A f \in fields : f \in DOMAIN body /\ body[f] # ""

\* id begins with the two characters of prefix
Prefixed(id, prefix) == Len(id) >= 2 /\ SubSeq(id, 1, 2) = prefix

\* C13: createStore with all four fields present and an id that does not
\* begin with "ST" is answered 400 with the prefix message without a
\* datastore call and inserts nothing; no getAllStores result lists an id
\* without the prefix; and after any sequence of requests from an empty table
\* every stored Store id begins with "ST".
C13_StorePrefix ==
    LET h == Last
    IN  /\ (h.call.route = "createStore" /\ Done(h)
              /\ AllPresent(h.call.body, StoreFields)
              /\ ~Prefixed(h.call.body.id, "ST")) =>
                 /\ h.sent = <<Reply(400, ErrorJson("Store ID must start with 'ST' prefix"))>>
                 /\ h.dbLog = <<>>
                 /\ TablesAsBefore(h)
                 /\ h.call.body.id \notin Ids(dbStore)
        /\ (h.call.route = "getAllStores" /\ AnsweredWith(h, 200)) =>
              \A i \in DOMAIN h.sent[1].json.value :
                  Prefixed(h.sent[1].json.value[i].id, "ST")
        /\ \A r \in dbStore : Prefixed(r.id, "ST")

\* a store with the id "XST" was posted next to a stored store
C13_Witness ==
    /\ Last.call.route = "createStore"
    /\ Done(Last)
    /\ AllPresent(Last.call.body, StoreFields)
    /\ Last.call.body.id = "XST"
    /\ AnsweredWith(Last, 400)
    /\ dbStore # {}

\* a datastore call of h found the datastore unavailable
Unavailable(h) == \E i \in DOMAIN h.dbLog : h.dbLog[i].outcome = "unavailable"

\* C14: a createStore whose valid id is already stored by an earlier
\* createStore (the second of two calls with the same id) is answered 400
\* with the duplicate-id message when the datastore answers its lookup; the
\* number of stored Stores does not increase and the stored record keeps its
\* label, city and state.
C14_DuplicateRejected ==
    LET h == Last
    IN  (h.call.route = "createStore" /\ Done(h)
           /\ AllPresent(h.call.body, StoreFields)
           /\ Prefixed(h.call.body.id, "ST")
           /\ h.call.body.id \in Ids(h.before.dbStore)
           /\ ~Unavailable(h)) =>
              /\ h.sent = <<Reply(400, ErrorJson("Store ID already exists"))>>
              /\ Cardinality(dbStore) <= Cardinality(h.before.dbStore)
              /\ \A r \in h.before.dbStore : r.id = h.call.body.id => r \in dbStore
              /\ dbStore = h.before.dbStore

\* the second createStore of an id carried another label than the first
C14_Witness ==
    /\ Last.call.route = "createStore"
    /\ AnsweredWith(Last, 400)
    /\ AllPresent(Last.call.body, StoreFields)
    /\ Last.call.body.id \in Ids(Last.before.dbStore)
    /\ Last.sent[1].json = ErrorJson("Store ID already exists")
    /\ RowOf(dbStore, Last.call.body.id).label # Last.call.body.label

\* a field of fields is absent from body, or holds the empty string
SomeMissing(body, fields) == \E f \in fields : f \notin DOMAIN body \/ body[f] = ""

\* a field of fields is absent from body
SomeAbsent(body, fields) == \E f \in fields : f \notin DOMAIN body

\* C15: createStore with any of id, label, city, state absent or empty, and
\* createSKU with any of id, label, class, department absent or empty or
\* with price or cost absent, is answered 400 with a validation error
\* without any datastore call, and the Store and SKUs tables are unchanged.
C15_MissingFieldRejected ==
    LET h == Last
        rejected ==
            /\ AnsweredWith(h, 400)
            /\ h.sent[1].json.kind = "error"
            /\ h.dbLog = <<>>
            /\ TablesAsBefore(h)
    IN  /\ (h.call.route = "createStore" /\ h.pc # "idle"
              /\ SomeMissing(h.call.body, StoreFields)) => rejected
        /\ (h.call.route = "createSKU" /\ h.pc # "idle"
              /\ (\/ SomeMissing(h.call.body, {"id", "label", "class", "department"})
                  \/ SomeAbsent(h.call.body, {"price", "cost"}))) => rejected

\* a store with an empty city was posted next to a stored store
C15_Witness ==
    /\ Last.call.route = "createStore"
    /\ AllPresent(Last.call.body, {"id", "label", "state"})
    /\ "city" \in DOMAIN Last.call.body
    /\ Last.call.body.city = ""
    /\ AnsweredWith(Last, 400)
    /\ Last.dbLog = <<>>
    /\ dbStore # {}

\* h has sent one response, a failure that is not the success message
AnsweredFailure(h) ==
    /\ Len(h.sent) = 1
    /\ h.sent[1].status >= 400
    /\ h.sent[1].json.kind = "error"

\* C16: deleteStore (deleteSKU) with an id that is not stored when the
\* request arrives, the second of two deletes of one id included, never
\* answers with the success message: it answers with a failure response and
\* the Store (SKUs) table is unchanged.
C16_DeleteMissingFails ==
    LET h == Last
    IN  /\ (h.call.route = "deleteStore" /\ Done(h)
              /\ h.call.id \notin Ids(h.before.dbStore)) =>
                 /\ AnsweredFailure(h)
                 /\ h.sent[1].json # MessageJson("Store deleted successfully")
                 /\ dbStore = h.before.dbStore
        /\ (h.call.route = "deleteSKU" /\ Done(h)
              /\ h.call.id \notin Ids(h.before.dbSKUs)) =>
                 /\ AnsweredFailure(h)
                 /\ h.sent[1].json # MessageJson("SKUs deleted successfully")
                 /\ dbSKUs = h.before.dbSKUs

\* the datastore was asked to delete a store that is not stored, next to one
\* that is, and said so
C16_Witness ==
    /\ Last.call.route = "deleteStore"
    /\ Done(Last)
    /\ Last.call.id \notin Ids(Last.before.dbStore)
    /\ Last.dbLog = <<[op |-> "delete", outcome |-> "notFound"]>>
    /\ AnsweredFailure(Last)
    /\ dbStore # {}

\* the slots serving a create of route for id
CreatesOf(route, id) ==
    {s \in DOMAIN handlers : handlers[s].call.route = route /\ handlers[s].call.body.id = id}

\* no slot serves a delete of id
NoDeleteOf(id) ==
    \A s \in DOMAIN handlers :
        handlers[s].call.route \in {"deleteStore", "deleteSKU"} => handlers[s].call.id # id

\* the creates of slots raced for an id that was not stored when any of them
\* arrived, all are answered, and the datastore was available to all
RacedFor(slots, id, beforeOf(_)) ==
    /\ Cardinality(slots) >= 2
    /\ NoDeleteOf(id)
    /\ \A s \in slots :
          /\ Done(handlers[s])
          /\ ~Unavailable(handlers[s])
          /\ id \notin Ids(beforeOf(handlers[s]))

\* exactly one of slots was answered 201, every other one 400 with msg
OneCreatedOthersRejected(slots, msg) ==
    /\ Cardinality({s \in slots : AnsweredWith(handlers[s], 201)}) = 1
    /\ \A s \in slots :
          \/ AnsweredWith(handlers[s], 201)
          \/ handlers[s].sent = <<Reply(400, ErrorJson(msg))>>

BeforeStore(h) == h.before.dbStore
BeforeSKUs(h) == h.before.dbSKUs

\* C17 (as claimed): under every interleaving of two or more concurrent
\* createStore (createSKU) requests carrying the same valid id that is not
\* yet stored, exactly one request is answered 201, every other one is
\* answered 400 with the duplicate-id message (not a generic 5xx), and the id
\* is stored exactly once.
C17_CreateAtomic ==
    /\ \A id \in {"ST1", "ST2"} :
          RacedFor(CreatesOf("createStore", id), id, BeforeStore) =>
              /\ OneCreatedOthersRejected(CreatesOf("createStore", id),
                                          "Store ID already exists")
              /\ Cardinality({r \in dbStore : r.id = id}) = 1
    /\ \A id \in {"SK1"} :
          RacedFor(CreatesOf("createSKU", id), id, BeforeSKUs) =>
              /\ OneCreatedOthersRejected(CreatesOf("createSKU", id),
                                          "SKU ID already exists")
              /\ Cardinality({r \in dbSKUs : r.id = id}) = 1

\* C18 (as claimed): after any sequence of createSKU and deleteSKU requests
\* from an empty SKUs table every stored SKU has price >= 0 and cost >= 0.
C18_NonNegative == \A r \in dbSKUs : r.price >= 0 /\ r.cost >= 0

\* C19: after any sequence of createSKU and deleteSKU requests from an empty
\* SKUs table every stored SKU id begins with "SK" and no two stored SKUs
\* share an id; a createSKU whose id lacks the prefix, and one whose id is
\* already stored and whose lookup the datastore answers, is answered 400
\* and leaves the SKUs table unchanged.
C19_SkuIdsPrefixedUnique ==
    LET h == Last
        rejected == AnsweredWith(h, 400) /\ h.sent[1].json.kind = "error"
                       /\ dbSKUs = h.before.dbSKUs
    IN  /\ \A r \in dbSKUs : Prefixed(r.id, "SK")
        /\ \A r1, r2 \in dbSKUs : r1.id = r2.id => r1 = r2
        /\ (h.call.route = "createSKU" /\ Done(h) /\ "id" \in DOMAIN h.call.body) =>
              /\ ~Prefixed(h.call.body.id, "SK") => rejected
              /\ (h.call.body.id \in Ids(h.before.dbSKUs) /\ ~Unavailable(h)) => rejected

\* a SKU was posted under a stored id with another price
C19_Witness ==
    /\ Last.call.route = "createSKU"
    /\ Done(Last)
    /\ AllPresent(Last.call.body, {"id", "label", "class", "department"})
    /\ ~SomeAbsent(Last.call.body, {"price", "cost"})
    /\ Last.call.body.id \in Ids(Last.before.dbSKUs)
    /\ Last.sent = <<Reply(400, ErrorJson("SKU ID already exists"))>>
    /\ RowOf(dbSKUs, Last.call.body.id).price # Last.call.body.price

\* C20: Store records are immutable between creation and deletion: no step
\* of a getAllStores, createStore, deleteStore or getPlanningData request (or
\* of a SKU request), in sequence or interleaved with other requests,
\* changes the label, city or state stored under an id that stays stored; a
\* createStore with an already stored id overwrites nothing.
C20_RecordsImmutable ==
    [][\A r \in dbStore : r.id \in Ids(dbStore') => r \in dbStore']_vars

\* a createStore carrying another label for a stored id has been answered
\* and the stored record holds its own label still
C20_Witness ==
    \E s \in DOMAIN handlers :
        LET h == handlers[s]
        IN  /\ h.call.route = "createStore"
            /\ Done(h)
            /\ h.call.body.id \in Ids(h.before.dbStore)
            /\ h.call.body.id \in Ids(dbStore)
            /\ RowOf(dbStore, h.call.body.id) = RowOf(h.before.dbStore, h.call.body.id)
            /\ RowOf(dbStore, h.call.body.id).label # h.call.body.label

\* the required-fields check of createSKU fails on body: a string field is
\* absent or empty, or price or cost is absent or 0
SkuFieldsMissing(body) ==
    \/ SomeMissing(body, {"id", "label", "class", "department"})
    \/ \E f \in {"price", "cost"} : f \notin DOMAIN body \/ body[f] = 0

\* the datastore calls of h, in the order they were made
OpsOf(h) == [i \in DOMAIN h.dbLog |-> h.dbLog[i].op]

\* a create request h went through its checks in the order required fields,
\* prefix, duplicate lookup, insert; missing tells whether the first check
\* fails, stored is the table at arrival
ChecksInOrder(h, missing, prefix, stored, requiredMsg, prefixMsg, duplicateMsg) ==
    /\ missing =>
          h.sent = <<Reply(400, ErrorJson(requiredMsg))>> /\ h.dbLog = <<>>
    /\ (~missing /\ ~Prefixed(h.call.body.id, prefix)) =>
          h.sent = <<Reply(400, ErrorJson(prefixMsg))>> /\ h.dbLog = <<>>
    /\ (~missing /\ Prefixed(h.call.body.id, prefix)) =>
          /\ OpsOf(h) \in {<<"findUnique">>, <<"findUnique", "create">>}
          /\ (h.call.body.id \in Ids(stored) /\ ~Unavailable(h)) =>
                /\ h.sent = <<Reply(400, ErrorJson(duplicateMsg))>>
                /\ OpsOf(h) = <<"findUnique">>
          /\ (h.call.body.id \notin Ids(stored) /\ ~Unavailable(h)) =>
                /\ OpsOf(h) = <<"findUnique", "create">>
                /\ AnsweredWith(h, 201)

\* C21: createStore and createSKU apply their checks in the order required
\* fields, identifier prefix, duplicate lookup, insert: an answered request
\* failing several checks has the error of the first failing one, and the
\* lookup is issued only when the first two checks passed (and the insert
\* only after a lookup that found nothing).
C21_CheckOrder ==
    LET h == Last
    IN  /\ (h.call.route = "createStore" /\ Done(h)) =>
              ChecksInOrder(h, SomeMissing(h.call.body, StoreFields), "ST",
                            h.before.dbStore,
                            "id, label, city, and state are required fields",
                            "Store ID must start with 'ST' prefix",
                            "Store ID already exists")
        /\ (h.call.route = "createSKU" /\ Done(h)) =>
              ChecksInOrder(h, SkuFieldsMissing(h.call.body), "SK",
                            h.before.dbSKUs,
                            "id, label, class, department, price and cost are required fields",
                            "SKU ID must start with 'SK' prefix",
                            "SKU ID already exists")

\* a store without the prefix and with an empty city got the required-fields
\* error
C21_Witness ==
    /\ Last.call.route = "createStore"
    /\ Done(Last)
    /\ "id" \in DOMAIN Last.call.body
    /\ Last.call.body.id = "XST"
    /\ SomeMissing(Last.call.body, {"city"})
    /\ Last.sent = <<Reply(400, ErrorJson("id, label, city, and state are required fields"))>>

(***************************************************************************)
(* Further properties of the planning aggregator                           *)
(***************************************************************************)
\* the requested store is stored, both SKUs have rows of it, and they share
\* their label
SharedLabelRequested ==
    /\ Succeeded
    /\ req.storeId \in Ids(dbStore)
    /\ SkusWithRows = SkuIds
    /\ RowOf(dbSKUs, "SK1").label = RowOf(dbSKUs, "SK2").label

\* the SKU of the Planning row a salesData entry came from: the seed data
\* gives every (sku, week) its own salesUnits
SkuOfEntry(entry) ==
    (CHOOSE p \in RequestedRows : p.salesUnits = entry.salesUnits).sku

\* C22: getPlanningData groups by SKU label: when two distinct SKUs with
\* planning rows for the store share a label, the response has a single
\* entry, under that label, whose salesData holds the rows of both SKUs and
\* whose sku_id, price and cost are those of the SKU of the first row
\* encountered.
C22_SharedLabelMerged ==
    SharedLabelRequested =>
        /\ Len(res.data) = 1
        /\ res.data[1].sku_name = RowOf(dbSKUs, "SK1").label
        /\ \A p \in RequestedRows :
              \E j \in DOMAIN res.data[1].salesData :
                  /\ res.data[1].salesData[j].salesUnits = p.salesUnits
                  /\ res.data[1].salesData[j].week \in {p.week, NullWeek}
        /\ \A j \in DOMAIN res.data[1].salesData :
              \E p \in RequestedRows :
                  res.data[1].salesData[j].salesUnits = p.salesUnits
        /\ LET first == SkuOfEntry(res.data[1].salesData[1])
           IN  /\ res.data[1].sku_id = first
               /\ res.data[1].price = RowOf(dbSKUs, first).price
               /\ res.data[1].cost = RowOf(dbSKUs, first).cost

\* the merged entry carries the id of SK2, whose row came first
C22_Witness ==
    /\ SharedLabelRequested
    /\ Len(res.data) = 1
    /\ res.data[1].sku_id = "SK2"
    /\ \E j \in DOMAIN res.data[1].salesData : SkuOfEntry(res.data[1].salesData[j]) = "SK1"

\* C23: in the aggregator's output the salesData list of every entry is
\* ordered by week ascending, in the order of the query (a week without a
\* Calendar row is NULL and sorts last): of two consecutive entries the
\* earlier one's week is less than or equal to the later one's.
C23_SalesDataByWeek ==
    Succeeded =>
        \A k \in DOMAIN res.data :
            \A j \in 1..(Len(res.data[k].salesData) - 1) :
                WeekRank(res.data[k].salesData[j].week)
                    <= WeekRank(res.data[k].salesData[j + 1].week)

\* an entry lists a sale of W01 before a sale of W02, next to another entry
C23_Witness ==
    /\ Succeeded
    /\ Len(res.data) = 2
    /\ \E k \in DOMAIN res.data :
          /\ Len(res.data[k].salesData) >= 2
          /\ res.data[k].salesData[1].week = "W01"
          /\ res.data[k].salesData[Len(res.data[k].salesData)].week = "W02"

(***************************************************************************)
(* Further properties of the roll-up                                       *)
(***************************************************************************)
\* C24: at the end of every roll-up that returns its output, each of the 52
\* week buckets satisfies gmDollars = revenue - cost.
C24_GmDollarsIsRevenueLessCost ==
    RolledUp =>
        \A i \in WeekIndexes :
            LET bucket == chart.salesMap[CanonicalWeeks[i]]
            IN  bucket.gmDollars = bucket.revenue - bucket.cost

\* two SKUs sold in W01, and the bucket holds a margin
C24_Witness ==
    /\ RolledUp
    /\ Len(skuData.data) = 2
    /\ \A k \in 1..2 : \E j \in DOMAIN skuData.data[k].salesData :
          /\ skuData.data[k].salesData[j].week = "W01"
          /\ skuData.data[k].salesData[j].salesUnits # 0
    /\ chart.salesMap["W01"].gmDollars # 0
    /\ chart.salesMap["W01"].cost # 0

\* both components have rendered an aggregate holding a single SKU
SingleSkuRendered ==
    /\ RolledUp
    /\ cells.status = "ok"
    /\ Len(skuData.data) = 1

\* C25 (as claimed): for an aggregate holding a single SKU, for every week
\* the cell of the planning table and the bucket of the chart roll-up hold
\* the same sales dollars, the same GM dollars and, before the cell's
\* rounding, the same GM percent, also with several records for one week.
\* Stated for positive salesUnits, where the guards of the two percentages
\* agree.
C25_CellAgreesWithChart ==
    (SingleSkuRendered
       /\ \A j \in DOMAIN skuData.data[1].salesData :
             skuData.data[1].salesData[j].salesUnits > 0) =>
        \A w \in cells.weeks :
            LET cell == cells.rows[1][w]
                bucket == chart.salesMap[w]
            IN  /\ cell.grossSales = bucket.revenue
                /\ cell.grossMarginDollars = bucket.gmDollars
                /\ cell.percent = bucket.gmPercent

(***************************************************************************)
(* The pages                                                               *)
(***************************************************************************)
\* C26: on the Planning and Charts pages, whenever a store is selected and
\* no planning request is in flight, the skuData of the page is not the
\* aggregate of another store: it is the aggregate returned for the selected
\* store, or still the initial value when no request for it has succeeded.
\* The claim asks for more, the aggregate of the selected store in any
\* arrival order of the responses and nothing of an earlier store after a
\* failed request, and so fails wherever this does.
C26_SelectedStoreShown ==
    (viewer # NoPage /\ viewer.value # "" /\ InFlight(viewer) = 0)
        => viewer.skuData \in {Aggregate(viewer.value), InitialData}

\* the table the page lists
ListedTable == IF manager.page = "Stores" THEN dbStore ELSE dbSKUs

\* C27: on the Stores and SKUs pages, once every request the page has issued
\* has completed, all of them successfully, the list shown (allStores,
\* allSKUs) holds the rows of the table and loading is false; and while a
\* request for the list is in flight, loading is true.
C27_ListFollowsDatastore ==
    manager # NoPage =>
       /\ (manager.requests = <<>> /\ ~manager.errors)
             => (Range(manager.allItems) = ListedTable /\ ~manager.loading)
       /\ (\E i \in DOMAIN manager.requests : manager.requests[i].method = "GET")
             => manager.loading

\* C28: on the Stores and SKUs pages, after any sequence of page-button
\* clicks, search edits, additions and deletions, a filtered list that is
\* not empty is not rendered as an empty page.  The claim derives this from
\* currentPage staying within 1..max(1, totalPages), which fails wherever
\* this does.
C28_NonEmptyPageShown ==
    (manager # NoPage /\ ~manager.loading /\ Len(filteredItems(manager)) > 0)
        => Len(currentItems(manager)) > 0

\* C29: createSKU answers a request whose price is the number 0, or whose
\* cost is the number 0, with the 400 required-fields error and without a
\* datastore call, a request with a new "SK" id and every other field
\* present included; the tables are unchanged, and no SKU stored through
\* createSKU has price 0 or cost 0.
C29_ZeroIsMissing ==
    LET h == Last
        body == h.call.body
        zero(f) == f \in DOMAIN body /\ body[f] = 0
    IN  /\ (h.call.route = "createSKU" /\ h.pc # "idle"
              /\ (zero("price") \/ zero("cost"))) =>
              /\ h.sent = <<Reply(400,
                    ErrorJson("id, label, class, department, price and cost are required fields"))>>
              /\ h.dbLog = <<>>
              /\ TablesAsBefore(h)
        /\ \A r \in dbSKUs : r.price # 0 /\ r.cost # 0

\* a SKU with every field, a new id with the prefix and the price 0 was
\* posted and refused
C29_Witness ==
    /\ Last.call.route = "createSKU"
    /\ SkuFields \subseteq DOMAIN Last.call.body
    /\ Last.call.body.id = "SK1"
    /\ Last.call.body.price = 0
    /\ Last.call.body.cost = 3
    /\ "SK1" \notin Ids(Last.before.dbSKUs)
    /\ AnsweredWith(Last, 400)
    /\ dbSKUs = {}

\* C30: in a successful answer of getPlanningData for a stored store the
\* lengths of the salesData lists add up to the number of Planning rows of
\* the store, whatever the SKUs, Calendar and Planning tables hold: each
\* fact appears once, none lost and none duplicated.
C30_EachFactOnce ==
    (Succeeded /\ req.storeId \in Ids(dbStore)) =>
        SumOver(DOMAIN res.data, [k \in DOMAIN res.data |-> Len(res.data[k].salesData)])
            = Cardinality(RequestedRows)

====
